---- MODULE Spec2Model ----
(***************************************************************************)
(* Certificate rotation analyzer (certificate_analyzer_enhanced.py) and    *)
(* the pipeline-integrated concurrent extractor (x.py).                    *)
(*                                                                         *)
(* Subsystem B (x.py): three segment tasks page through the inventory API  *)
(* concurrently inside one client session; asyncio.gather collects them.   *)
(* One step of a task is the code between two suspension points (the POST, *)
(* a retry sleep, the inter-page sleep).                                   *)
(*                                                                         *)
(* Subsystem A (certificate_analyzer_enhanced.py): stream_api_certificates *)
(* pages through the API sequentially, one page per step.                  *)
(*                                                                         *)
(* Durations are in milliseconds.  A falsy nextRecordKey (None or "") is   *)
(* NoKey.                                                                  *)
(***************************************************************************)
EXTENDS Integers, Sequences, FiniteSets, TLC

\* ------------------------------------------------------------------ bounds
\* pages a segment may serve in the single-fetch specification
MaxPages == 2
\* resources of a non-empty page in the single-fetch specification
MaxPageResources == 1
\* pages a segment may serve when three segments run concurrently
GatherMaxPages == 2
\* resources of a non-empty page when three segments run concurrently
GatherMaxPageResources == 1

\* pages the inventory API may serve to the stream
MaxStreamPages == 3
\* runs of equal resources the inventory API may serve to the stream in all
MaxStreamRuns == 2
\* latest wall-clock time
MaxClock == 1
MaxScalar == 3
MaxCertificates == 4
MaxPopulation == 5
MaxShift == 12

\* --------------------------------------------------------- program constants
SAFETY_LIMIT == 50000
LOW_MATCH_COUNT == 100
max_retries == 3
page_delay_seconds == 30
initial_retry_delay == 500
NoKey == 0

payload_order == <<"Amazon", "DigiCert", "PCA">>
PayloadNames == {payload_order[i] : i \in 1..Len(payload_order)}

RetryableStatuses == {429, 503}
OtherStatuses == {400, 401, 500}

NoException == [type |-> "none", segment |-> "", attempts |-> 0, task |-> ""]
NoTable == <<"no table">>
NoToken == "<no token>"
NoHeaders == [Authorization |-> NoToken]

VARIABLES
    \* ---- Subsystem B, per segment task
    pc,                         \* position of the task
    all_resources_for_payload,  \* resources accumulated by the fetch
    next_record_key,            \* key of the next page, NoKey if none
    current_payload,            \* nextRecordKey carried by current_payload
    page_index,                 \* pages fetched so far
    attempt,                    \* 0-based attempt of the current page
    retry_delay,                \* backoff delay of the next retry
    task_exception,             \* exception the task raised
    \* ---- Subsystem B, extract_api_certificates_concurrently / extract
    mainpc,                     \* "init", "gathering", "returned", "raised"
    session_open,               \* the aiohttp.ClientSession is open
    api_certificates,           \* the combined table, NoTable if none
    raised_exception,           \* exception raised to the caller
    \* ---- Subsystem B, observation of the run
    log,                        \* events of the current page of each segment
    served,                     \* resources the server returned per segment
    returned_keys,              \* nextRecordKey of each 200 response per segment
    finish_order,               \* segments in the order their tasks finished
    \* ---- Subsystem B, the pipeline instance
    api_token,                  \* self.api_token, NoToken before construction
    token_exchanges,            \* calls of refresh() so far
    headers,                    \* headers of the fetch of each segment
    \* ---- Subsystem A, stream_api_certificates
    stream_pc,                  \* "created", "paging", "ended", "raised"
    stream_stop,                \* why the stream stopped
    stream_next_record_key,     \* next_record_key of the stream
    now_utc,                    \* timestamp taken at stream start
    page_count,                 \* pages requested
    total_processed,            \* resources examined
    yielded,                    \* certificates yielded, as runs of equal ones
    \* ---- Subsystem A, observation of the run
    clock,                      \* wall clock
    stream_requests,            \* page requests sent
    examined,                   \* what became of each examined resource
    \* ---- Subsystem A, main
    main_pc,                    \* the step main is about to run
    args,                       \* parsed command line: env, token
    config_files,               \* content of env.yml and env.override.yml
    env_config,                 \* (snowflake_params, secrets) of load_env_config
    snf_conn,                   \* "none", "open", "closed"
    dataset_arns,               \* ARNs of the warehouse dataset
    result,                     \* the AnalysisResult, NoResult if none
    summary_printed,            \* print_analysis_summary has run
    artifacts,                  \* files written by save_analysis_results
    exit_code,                  \* value main returned, NoExit while running
    steps,                      \* orchestration steps in the order they ran
    \* ---- Subsystem A, one call of a function of the analysis
    fn_pc,                      \* "idle", "called", "returned", "raised"
    fn_args,                    \* the arguments as passed
    fn_objects,                 \* the argument objects as the call left them
    fn_result                   \* the value returned or the error raised

varsB == <<pc, all_resources_for_payload, next_record_key, current_payload,
           page_index, attempt, retry_delay, task_exception, mainpc,
           session_open, api_certificates, raised_exception, log, served,
           returned_keys, finish_order, api_token, token_exchanges, headers>>

varsA == <<stream_pc, stream_stop, stream_next_record_key, now_utc,
           page_count, total_processed, yielded, clock, stream_requests,
           examined>>

varsM == <<main_pc, args, config_files, env_config, snf_conn, dataset_arns,
           result, summary_printed, artifacts, exit_code, steps>>

varsP == <<fn_pc, fn_args, fn_objects, fn_result>>

vars == <<varsB, varsA, varsM, varsP>>

\* ----------------------------------------------------------------- helpers
RECURSIVE Concat(_)
Concat(seqs) ==
    IF seqs = <<>> THEN <<>> ELSE Head(seqs) \o Concat(Tail(seqs))

Event(ev, s, status, dur, why) ==
    [ev |-> ev, page |-> page_index[s] + 1, attempt |-> attempt[s] + 1,
     key |-> current_payload[s], status |-> status, dur |-> dur, why |-> why,
     auth |-> headers[s].Authorization]

\* ------------------------------------------------------- the server's answers
ServerResources(s, p, n) ==
    [i \in 1..n |-> [origin |-> s, page |-> p, idx |-> i]]

OkOutcomes(s, maxPages, maxResources, keys) ==
    {[kind |-> "status", status |-> 200,
      resources |-> ServerResources(s, page_index[s] + 1, n), key |-> k] :
        n \in {0, maxResources},
        k \in (IF page_index[s] + 1 < maxPages THEN keys \cup {NoKey} ELSE {NoKey})}

StatusOutcomes(statuses) ==
    {[kind |-> "status", status |-> st, resources |-> <<>>, key |-> NoKey] :
        st \in statuses}

ClientErrorOutcome ==
    [kind |-> "client_error", status |-> 0, resources |-> <<>>, key |-> NoKey]

BadJsonOutcome ==
    [kind |-> "bad_json", status |-> 200, resources |-> <<>>, key |-> NoKey]

\* ------------------------------------------- _fetch_paginated_resource, parts
\* variant: the key of the previous page is never attached
BuildPayload_DropKey(key) == NoKey

\* current_payload["nextRecordKey"] is set only for a truthy key
BuildPayload(key) == IF key # NoKey THEN key ELSE NoKey

\* a 429/503 is retried in place unless this is the last attempt
RetryThrottled(status, att) ==
    status \in RetryableStatuses /\ att < max_retries - 1

\* variant: the last attempt is retried as well
RetryClientError_OffByOne(att) == att < max_retries

\* the ClientError handler retries unless this is the last attempt
RetryClientError(att) == att < max_retries - 1

\* variant: constant backoff
NextRetryDelay_Constant(delay) == delay

\* retry_delay *= 2
NextRetryDelay(delay) == delay * 2

TagResources(name, resources) ==
    [i \in 1..Len(resources) |->
        [origin |-> resources[i].origin, page |-> resources[i].page,
         idx |-> resources[i].idx, source_payload |-> name]]

\* variant: attempt and backoff carry over from the previous page
SendFirstRequest_KeepBackoff(s, key) ==
    /\ current_payload' = [current_payload EXCEPT ![s] = BuildPayload(key)]
    /\ UNCHANGED <<retry_delay, attempt>>
    /\ log' = [log EXCEPT ![s] =
            <<[ev |-> "request", page |-> page_index[s] + 1,
               attempt |-> attempt[s] + 1, key |-> BuildPayload(key),
               status |-> 0, dur |-> 0, why |-> "",
               auth |-> headers'[s].Authorization]>>]
    /\ pc' = [pc EXCEPT ![s] = "awaiting"]

\* the while-loop top and the first POST of a page
SendFirstRequest(s, key) ==
    /\ current_payload' = [current_payload EXCEPT ![s] = BuildPayload(key)]
    /\ retry_delay' = [retry_delay EXCEPT ![s] = initial_retry_delay]
    /\ attempt' = [attempt EXCEPT ![s] = 0]
    /\ log' = [log EXCEPT ![s] =
            <<[ev |-> "request", page |-> page_index[s] + 1, attempt |-> 1,
               key |-> BuildPayload(key), status |-> 0, dur |-> 0, why |-> "",
               auth |-> headers'[s].Authorization]>>]
    /\ pc' = [pc EXCEPT ![s] = "awaiting"]

\* the n-th token exchange gives the n-th token
refresh(n) == "token-" \o ToString(n)

\* variant: every fetch exchanges a token of its own
BuildHeaders_NewExchange(s) ==
    /\ token_exchanges' = token_exchanges + 1
    /\ api_token' = refresh(token_exchanges + 1)
    /\ headers' = [headers EXCEPT ![s] = [Authorization |-> api_token']]

\* headers = {"Authorization": self.api_token, ...}, once per fetch
BuildHeaders(s) ==
    /\ headers' = [headers EXCEPT ![s] = [Authorization |-> api_token]]
    /\ UNCHANGED <<api_token, token_exchanges>>

\* payload_task starts and runs to its first POST
TaskStart(s) ==
    /\ pc[s] = "start"
    /\ session_open
    /\ BuildHeaders(s)
    /\ SendFirstRequest(s, next_record_key[s])
    /\ UNCHANGED <<all_resources_for_payload, next_record_key, page_index,
                   task_exception, mainpc, session_open, api_certificates,
                   raised_exception, served, returned_keys, finish_order>>
    /\ UNCHANGED <<varsA, varsM, varsP>>

\* the task raises: payload_task re-raises, the task is finished
TaskRaises(s, exc, events) ==
    /\ pc' = [pc EXCEPT ![s] = "raised"]
    /\ task_exception' = [task_exception EXCEPT ![s] = exc]
    /\ log' = [log EXCEPT ![s] = log[s] \o events]
    /\ finish_order' = Append(finish_order, s)
    /\ UNCHANGED <<all_resources_for_payload, next_record_key, current_payload,
                   page_index, attempt, retry_delay, served, returned_keys>>

\* variant: the inter-page pause is taken before a retry as well
SleepBeforeRetry_WithPagePause(s, events) ==
    /\ pc' = [pc EXCEPT ![s] = "sleeping_retry"]
    /\ log' = [log EXCEPT ![s] =
            log[s] \o events
                \o <<Event("sleep", s, 0, page_delay_seconds, "page"),
                     Event("sleep", s, 0, retry_delay[s], "backoff")>>]
    /\ UNCHANGED <<all_resources_for_payload, next_record_key, current_payload,
                   page_index, attempt, retry_delay, task_exception, served,
                   returned_keys, finish_order>>

\* asyncio.sleep(retry_delay) before the next attempt
SleepBeforeRetry(s, events) ==
    /\ pc' = [pc EXCEPT ![s] = "sleeping_retry"]
    /\ log' = [log EXCEPT ![s] =
            log[s] \o events \o <<Event("sleep", s, 0, retry_delay[s], "backoff")>>]
    /\ UNCHANGED <<all_resources_for_payload, next_record_key, current_payload,
                   page_index, attempt, retry_delay, task_exception, served,
                   returned_keys, finish_order>>

\* except aiohttp.ClientError: retry with backoff or give up with RuntimeError
HandleClientError(s, events) ==
    IF RetryClientError(attempt[s])
    THEN SleepBeforeRetry(s, events)
    ELSE TaskRaises(s, [type |-> "RuntimeError", segment |-> s,
                        attempts |-> max_retries, task |-> s], events)

\* a 200 response with a decodable body
HandlePage(s, o) ==
    LET resources == TagResources(s, o.resources)
        events == <<Event("response", s, 200, 0, "")>>
    IN  /\ all_resources_for_payload' =
              [all_resources_for_payload EXCEPT ![s] = @ \o resources]
        /\ next_record_key' = [next_record_key EXCEPT ![s] = o.key]
        /\ page_index' = [page_index EXCEPT ![s] = @ + 1]
        /\ served' = [served EXCEPT ![s] = @ \o o.resources]
        /\ returned_keys' = [returned_keys EXCEPT ![s] = Append(@, o.key)]
        /\ IF o.key = NoKey
           THEN /\ pc' = [pc EXCEPT ![s] = "returned"]
                /\ log' = [log EXCEPT ![s] = log[s] \o events]
                /\ finish_order' = Append(finish_order, s)
           ELSE /\ pc' = [pc EXCEPT ![s] = "sleeping_page"]
                /\ log' = [log EXCEPT ![s] = log[s] \o events \o
                        <<Event("sleep", s, 0, page_delay_seconds, "page")>>]
                /\ UNCHANGED finish_order
        /\ UNCHANGED <<current_payload, attempt, retry_delay, task_exception>>

\* the response (or the transport failure) of the outstanding POST arrives
Receive(s, o) ==
    /\ pc[s] = "awaiting"
    /\ CASE o.kind = "client_error" ->
                HandleClientError(s, <<Event("client_error", s, 0, 0, "")>>)
         [] o.kind = "bad_json" ->
                TaskRaises(s, [type |-> "JSONDecodeError", segment |-> "",
                               attempts |-> 0, task |-> s],
                           <<Event("decode_error", s, 200, 0, "")>>)
         [] o.kind = "status" /\ o.status # 200 ->
                IF RetryThrottled(o.status, attempt[s])
                THEN SleepBeforeRetry(s, <<Event("response", s, o.status, 0, "")>>)
                ELSE \* raise ClientResponseError, a ClientError, inside the try
                     HandleClientError(s, <<Event("response", s, o.status, 0, "")>>)
         [] OTHER -> HandlePage(s, o)
    /\ UNCHANGED <<mainpc, session_open, api_certificates, raised_exception,
                   api_token, token_exchanges, headers>>
    /\ UNCHANGED <<varsA, varsM, varsP>>

\* variant: the retry is sent without the nextRecordKey of the page
WakeRetry_DropKey(s) ==
    /\ pc[s] = "sleeping_retry"
    /\ retry_delay' = [retry_delay EXCEPT ![s] = NextRetryDelay(@)]
    /\ attempt' = [attempt EXCEPT ![s] = @ + 1]
    /\ current_payload' = [current_payload EXCEPT ![s] = NoKey]
    /\ log' = [log EXCEPT ![s] = Append(@,
            [ev |-> "request", page |-> page_index[s] + 1,
             attempt |-> attempt[s] + 2, key |-> NoKey,
             status |-> 0, dur |-> 0, why |-> "",
             auth |-> headers[s].Authorization])]
    /\ pc' = [pc EXCEPT ![s] = "awaiting"]
    /\ UNCHANGED <<all_resources_for_payload, next_record_key, page_index,
                   task_exception, mainpc, session_open, api_certificates,
                   raised_exception, served, returned_keys, finish_order,
                   api_token, token_exchanges, headers>>
    /\ UNCHANGED <<varsA, varsM, varsP>>

\* the backoff sleep returns: double the delay, next attempt, POST again
WakeRetry(s) ==
    /\ pc[s] = "sleeping_retry"
    /\ retry_delay' = [retry_delay EXCEPT ![s] = NextRetryDelay(@)]
    /\ attempt' = [attempt EXCEPT ![s] = @ + 1]
    /\ log' = [log EXCEPT ![s] = Append(@,
            [ev |-> "request", page |-> page_index[s] + 1,
             attempt |-> attempt[s] + 2, key |-> current_payload[s],
             status |-> 0, dur |-> 0, why |-> "",
             auth |-> headers[s].Authorization])]
    /\ pc' = [pc EXCEPT ![s] = "awaiting"]
    /\ UNCHANGED <<all_resources_for_payload, next_record_key, current_payload,
                   page_index, task_exception, mainpc, session_open,
                   api_certificates, raised_exception, served, returned_keys,
                   finish_order, api_token, token_exchanges, headers>>
    /\ UNCHANGED <<varsA, varsM, varsP>>

\* the inter-page sleep returns: break, next page, POST
WakePage(s) ==
    /\ pc[s] = "sleeping_page"
    /\ UNCHANGED <<api_token, token_exchanges, headers>>
    /\ SendFirstRequest(s, next_record_key[s])
    /\ UNCHANGED <<all_resources_for_payload, next_record_key, page_index,
                   task_exception, mainpc, session_open, api_certificates,
                   raised_exception, served, returned_keys, finish_order>>
    /\ UNCHANGED <<varsA, varsM, varsP>>

\* ------------------------------------ extract_api_certificates_concurrently
TaskDone(s) == pc[s] \in {"returned", "raised"}

\* variant: gather without return_exceptions returns at the first exception
GatherReady_FirstException ==
    \/ \E s \in PayloadNames : pc[s] = "raised"
    \/ \A s \in PayloadNames : TaskDone(s)

\* asyncio.gather(*tasks, return_exceptions=True) returns when all are done
GatherReady == \A s \in PayloadNames : TaskDone(s)

\* variant: results in completion order (as asyncio.as_completed gives them)
ResultsList_ByCompletion(order) ==
    [i \in 1..Len(finish_order) |->
        IF pc[finish_order[i]] = "raised"
        THEN [exception |-> TRUE, exc |-> task_exception[finish_order[i]],
              rows |-> <<>>]
        ELSE [exception |-> FALSE, exc |-> NoException,
              rows |-> all_resources_for_payload[finish_order[i]]]]

\* results_list, in the order of the tasks given to gather
ResultsList(order) ==
    [i \in 1..Len(order) |->
        IF pc[order[i]] = "raised"
        THEN [exception |-> TRUE, exc |-> task_exception[order[i]], rows |-> <<>>]
        ELSE [exception |-> FALSE, exc |-> NoException,
              rows |-> all_resources_for_payload[order[i]]]]

\* variant: exceptions in the results are skipped
FirstException_Skipped(results) == NoException

\* variant: the last exception of the results is the one raised
FirstException_Last(results) ==
    LET failed == {i \in 1..Len(results) : results[i].exception}
    IN  IF failed = {} THEN NoException
        ELSE results[CHOOSE i \in failed : \A j \in failed : j <= i].exc

\* the loop over zip(payload_order, results_list): the first exception met
RECURSIVE FirstException(_)
FirstException(results) ==
    IF results = <<>> THEN NoException
    ELSE IF Head(results).exception THEN Head(results).exc
    ELSE FirstException(Tail(results))

CombineResults(results) ==
    Concat([i \in 1..Len(results) |-> results[i].rows])

\* the session is opened, the three tasks are created and gather awaits them
ExtractStart ==
    /\ mainpc = "init"
    /\ mainpc' = "gathering"
    /\ session_open' = TRUE
    /\ pc' = [s \in PayloadNames |-> "start"]
    /\ UNCHANGED <<all_resources_for_payload, next_record_key, current_payload,
                   page_index, attempt, retry_delay, task_exception,
                   api_certificates, raised_exception, log, served,
                   returned_keys, finish_order, api_token, token_exchanges,
                   headers>>
    /\ UNCHANGED <<varsA, varsM, varsP>>

\* variant: the session is closed on the success path only
GatherDone_OpenOnFailure ==
    /\ mainpc = "gathering"
    /\ GatherReady
    /\ LET results == ResultsList(payload_order)
           exc == FirstException(results)
       IN  IF exc # NoException
           THEN /\ mainpc' = "raised"
                /\ raised_exception' = exc
                /\ UNCHANGED <<api_certificates, session_open>>
           ELSE /\ mainpc' = "returned"
                /\ api_certificates' = CombineResults(results)
                /\ session_open' = FALSE
                /\ UNCHANGED raised_exception
    /\ UNCHANGED <<pc, all_resources_for_payload, next_record_key,
                   current_payload, page_index, attempt, retry_delay,
                   task_exception, log, served, returned_keys, finish_order,
                   api_token, token_exchanges, headers>>
    /\ UNCHANGED <<varsA, varsM, varsP>>

\* gather returns; the results are combined or the first exception re-raised;
\* the session's async-with block exits either way; extract returns or raises
GatherDone ==
    /\ mainpc = "gathering"
    /\ GatherReady
    /\ LET results == ResultsList(payload_order)
           exc == FirstException(results)
       IN  IF exc # NoException
           THEN /\ mainpc' = "raised"
                /\ raised_exception' = exc
                /\ UNCHANGED api_certificates
           ELSE /\ mainpc' = "returned"
                /\ api_certificates' = CombineResults(results)
                /\ UNCHANGED raised_exception
    /\ session_open' = FALSE
    /\ UNCHANGED <<pc, all_resources_for_payload, next_record_key,
                   current_payload, page_index, attempt, retry_delay,
                   task_exception, log, served, returned_keys, finish_order,
                   api_token, token_exchanges, headers>>
    /\ UNCHANGED <<varsA, varsM, varsP>>

\* ------------------------------------------------------------ specifications
InitSegments ==
    /\ all_resources_for_payload = [s \in PayloadNames |-> <<>>]
    /\ next_record_key = [s \in PayloadNames |-> NoKey]
    /\ current_payload = [s \in PayloadNames |-> NoKey]
    /\ page_index = [s \in PayloadNames |-> 0]
    /\ attempt = [s \in PayloadNames |-> 0]
    /\ retry_delay = [s \in PayloadNames |-> initial_retry_delay]
    /\ task_exception = [s \in PayloadNames |-> NoException]
    /\ api_certificates = NoTable
    /\ raised_exception = NoException
    /\ log = [s \in PayloadNames |-> <<>>]
    /\ served = [s \in PayloadNames |-> <<>>]
    /\ returned_keys = [s \in PayloadNames |-> <<>>]
    /\ finish_order = <<>>

\* the instance after __init__: one token exchange has been made
InitConstructed ==
    /\ api_token = refresh(1)
    /\ token_exchanges = 1
    /\ headers = [s \in PayloadNames |-> NoHeaders]

InitStream ==
    /\ stream_pc = "created"
    /\ stream_stop = ""
    /\ stream_next_record_key = NoKey
    /\ now_utc = 0
    /\ page_count = 0
    /\ total_processed = 0
    /\ yielded = <<>>
    /\ clock = 0
    /\ stream_requests = <<>>
    /\ examined = <<>>

\* main is not running
InitMainIdle ==
    /\ main_pc = "idle"
    /\ args = [env |-> "", token |-> ""]
    /\ config_files = <<>>
    /\ env_config = <<>>
    /\ snf_conn = "none"
    /\ dataset_arns = {}
    /\ result = <<>>
    /\ summary_printed = FALSE
    /\ artifacts = {}
    /\ exit_code = -1              \* NoExit
    /\ steps = <<>>

\* no function of the analysis is being called
InitNoCall ==
    /\ fn_pc = "idle"
    /\ fn_args = <<>>
    /\ fn_objects = <<>>
    /\ fn_result = <<>>

\* extract(): three segments fetched concurrently
Init ==
    /\ InitSegments
    /\ InitConstructed
    /\ InitStream
    /\ InitMainIdle
    /\ InitNoCall
    /\ mainpc = "init"
    /\ session_open = FALSE
    /\ pc = [s \in PayloadNames |-> "unscheduled"]

\* only a last page may be empty here
GatherOutcomes(s) ==
    {o \in OkOutcomes(s, GatherMaxPages, GatherMaxPageResources,
                      {page_index[s] + 1}) :
        o.key = NoKey \/ o.resources # <<>>}
        \cup StatusOutcomes({503}) \cup {BadJsonOutcome}

Next ==
    \/ ExtractStart
    \/ \E s \in PayloadNames : TaskStart(s)
    \/ \E s \in PayloadNames : \E o \in GatherOutcomes(s) : Receive(s, o)
    \/ \E s \in PayloadNames : WakeRetry(s)
    \/ \E s \in PayloadNames : WakePage(s)
    \/ GatherDone

Spec == Init /\ [][Next]_vars

\* one call of _fetch_paginated_resource on an open session
InitFetch ==
    /\ InitSegments
    /\ InitConstructed
    /\ InitStream
    /\ InitMainIdle
    /\ InitNoCall
    /\ mainpc = "direct"
    /\ session_open = TRUE
    /\ \E name \in PayloadNames :
          pc = [s \in PayloadNames |-> IF s = name THEN "start" ELSE "unscheduled"]

FetchOutcomes(s) ==
    OkOutcomes(s, MaxPages, MaxPageResources, {1, 2})
        \cup StatusOutcomes(RetryableStatuses \cup OtherStatuses)
        \cup {ClientErrorOutcome, BadJsonOutcome}

NextFetch ==
    \/ \E s \in PayloadNames : TaskStart(s)
    \/ \E s \in PayloadNames : \E o \in FetchOutcomes(s) : Receive(s, o)
    \/ \E s \in PayloadNames : WakeRetry(s)
    \/ \E s \in PayloadNames : WakePage(s)

SpecFetch == InitFetch /\ [][NextFetch]_vars

\* ============================================================== Subsystem A
NoExpiry == [present |-> FALSE, aware |-> FALSE, t |-> 0]

\* configuration.notAfter as the API gives it: no such item ("absent"), a
\* string dateutil cannot parse ("garbage"), a timestamp with a UTC offset
\* ("aware") or one without ("naive")
NotAfterValues(now) ==
    {[kind |-> "absent", t |-> 0], [kind |-> "garbage", t |-> 0]}
        \cup {[kind |-> "aware", t |-> now + d] : d \in {-1, 0, 1}}
        \cup {[kind |-> "naive", t |-> now + 1]}

\* an element of resourceConfigurations that is no JSON object (null, a
\* string): it has no .get
NotAMapping ==
    [arn |-> "", well_formed |-> FALSE, mapping |-> FALSE,
     notAfter |-> [kind |-> "absent", t |-> 0]]

\* a resource of the page; one that is not well formed (an item that is no
\* object, a value that is no string) makes Certificate.from_api_resource
\* raise, and so does an element that is no mapping
Resources(now) ==
    {[arn |-> "arn:a", well_formed |-> TRUE, mapping |-> TRUE, notAfter |-> v] :
        v \in NotAfterValues(now)}
        \cup {[arn |-> "arn:a", well_formed |-> FALSE, mapping |-> TRUE,
               notAfter |-> [kind |-> "absent", t |-> 0]]}
        \cup {NotAMapping}

\* runs of n equal consecutive resources: single resources of every kind,
\* and long runs of plain ones to reach the safety limit
Runs(now) ==
    {[res |-> r, n |-> 1] : r \in Resources(now)}
        \cup {[res |-> [arn |-> "arn:a", well_formed |-> TRUE, mapping |-> TRUE,
                        notAfter |-> [kind |-> "absent", t |-> 0]], n |-> n] :
                n \in {SAFETY_LIMIT \div 2, SAFETY_LIMIT - 1}}

RunSeqs(now, maxLen) == UNION {[1..m -> Runs(now)] : m \in 0..maxLen}

\* parse(config_value.strip('"')); a ValueError leaves not_after None
ParseNotAfter(raw) ==
    IF raw.kind \in {"aware", "naive"}
    THEN [present |-> TRUE, aware |-> raw.kind = "aware", t |-> raw.t]
    ELSE NoExpiry

\* the value None of an Optional[str] attribute, told apart from every string
None == "<None>"

\* Certificate with the defaults of from_api_resource
DefaultCertificate ==
    [arn |-> "", renewal_eligibility |-> "UNKNOWN", cert_type |-> "UNKNOWN",
     renewal_status |-> "UNKNOWN", asv_tag |-> None, ba_tag |-> None,
     not_after |-> NoExpiry, aws_region |-> None, environment |-> None,
     business_application_name |-> None, asv_name |-> None,
     line_of_business |-> None, in_use |-> None]

\* Certificate.from_api_resource: an attribute the resource does not carry
\* keeps its default
from_api_resource(resource) ==
    [field \in DOMAIN DefaultCertificate |->
        IF field = "arn" THEN resource.arn
        ELSE IF field = "not_after" THEN ParseNotAfter(resource.notAfter)
        ELSE IF field \in DOMAIN resource THEN resource[field]
        ELSE DefaultCertificate[field]]

\* if cert.not_after and cert.not_after > now_utc / elif not cert.not_after;
\* comparing a naive datetime with the aware now_utc raises TypeError
ExpiryFilter(cert, now) ==
    IF cert.not_after.present
    THEN IF ~cert.not_after.aware THEN "raise"
         ELSE IF cert.not_after.t > now THEN "yield" ELSE "drop"
    ELSE "yield"

\* the try block of the resource loop: an exception skips the resource after
\* the handler has logged resource.get('amazonResourceName', 'Unknown'); on
\* an element without .get the handler raises AttributeError itself
ExamineResource(resource, now) ==
    IF ~resource.mapping THEN "handler_raised"
    ELSE IF ~resource.well_formed THEN "skipped"
    ELSE LET decision == ExpiryFilter(from_api_resource(resource), now)
         IN  IF decision = "raise" THEN "skipped"
             ELSE IF decision = "yield" THEN "yielded" ELSE "dropped"

\* the resource loop over one page; it ends at the first resource whose
\* handler raises
RECURSIVE ExaminePage(_, _)
ExaminePage(runs, now) ==
    IF runs = <<>> THEN <<>>
    ELSE LET outcome == ExamineResource(Head(runs).res, now)
         IN  IF outcome = "handler_raised"
             THEN <<[res |-> Head(runs).res, n |-> 1, outcome |-> outcome]>>
             ELSE <<[res |-> Head(runs).res, n |-> Head(runs).n,
                     outcome |-> outcome]>> \o ExaminePage(Tail(runs), now)

\* the exception left the resource loop
LoopRaised(exam) ==
    exam # <<>> /\ exam[Len(exam)].outcome = "handler_raised"

RECURSIVE YieldedOf(_)
YieldedOf(exam) ==
    IF exam = <<>> THEN <<>>
    ELSE (IF Head(exam).outcome = "yielded"
          THEN <<[cert |-> from_api_resource(Head(exam).res), n |-> Head(exam).n]>>
          ELSE <<>>) \o YieldedOf(Tail(exam))

RECURSIVE CountOf(_)
CountOf(runs) == IF runs = <<>> THEN 0 ELSE Head(runs).n + CountOf(Tail(runs))

\* if total_processed >= SAFETY_LIMIT
SafetyLimitReached(total) == total >= SAFETY_LIMIT

\* variant: the token is not checked before the first request
StreamStart_NoTokenCheck(auth_token) ==
    /\ stream_pc = "created"
    /\ stream_pc' = "paging"
    /\ now_utc' = clock
    /\ UNCHANGED <<stream_stop, stream_next_record_key, page_count,
                   total_processed, yielded, clock, stream_requests, examined>>
    /\ UNCHANGED <<varsB, varsM, varsP>>

\* the generator runs up to its first page request
StreamStart(auth_token) ==
    /\ stream_pc = "created"
    /\ IF auth_token = ""
       THEN /\ stream_pc' = "raised"
            /\ stream_stop' = "ValueError"
            /\ UNCHANGED now_utc
       ELSE /\ stream_pc' = "paging"
            /\ now_utc' = clock
            /\ UNCHANGED stream_stop
    /\ UNCHANGED <<stream_next_record_key, page_count, total_processed,
                   yielded, clock, stream_requests, examined>>
    /\ UNCHANGED <<varsB, varsM, varsP>>

\* one iteration of the paging loop: request, response, resource loop,
\* next key, stop conditions
StreamPage(response) ==
    /\ stream_pc = "paging"
    /\ page_count' = page_count + 1
    /\ stream_requests' = Append(stream_requests,
            [key |-> stream_next_record_key, total_before |-> total_processed,
             served |-> CountOf(response.runs)])
    /\ IF response.kind = "http_error"
       THEN /\ stream_pc' = "raised"
            /\ stream_stop' = "HTTPError"
            /\ UNCHANGED <<stream_next_record_key, total_processed, yielded,
                           examined>>
       ELSE LET exam == ExaminePage(response.runs, now_utc)
                total == total_processed + CountOf(exam)
            IN  /\ examined' = examined \o exam
                /\ yielded' = yielded \o YieldedOf(exam)
                /\ total_processed' = total
                /\ IF LoopRaised(exam)
                   THEN /\ stream_pc' = "raised"
                        /\ stream_stop' = "AttributeError"
                        /\ UNCHANGED stream_next_record_key
                   ELSE /\ stream_next_record_key' = response.key
                        /\ IF response.key = NoKey
                           THEN stream_pc' = "ended" /\ stream_stop' = "complete"
                           ELSE IF SafetyLimitReached(total)
                           THEN stream_pc' = "ended"
                                    /\ stream_stop' = "safety_limit"
                           ELSE stream_pc' = "paging" /\ UNCHANGED stream_stop
    /\ UNCHANGED <<now_utc, clock>>
    /\ UNCHANGED <<varsB, varsM, varsP>>

\* time passes
Tick ==
    /\ stream_pc \in {"created", "paging"}
    /\ clock < MaxClock
    /\ clock' = clock + 1
    /\ UNCHANGED <<stream_pc, stream_stop, stream_next_record_key, now_utc,
                   page_count, total_processed, yielded, stream_requests,
                   examined>>
    /\ UNCHANGED <<varsB, varsM, varsP>>

StreamResponses ==
    {[kind |-> "ok", runs |-> r, key |-> k] :
        r \in RunSeqs(now_utc, MaxStreamRuns - Len(examined)),
        k \in (IF page_count + 1 < MaxStreamPages
               THEN {NoKey, page_count + 1} ELSE {NoKey})}
        \cup {[kind |-> "http_error", runs |-> <<>>, key |-> NoKey]}

InitStreamOnly ==
    /\ InitSegments
    /\ InitConstructed
    /\ InitStream
    /\ InitMainIdle
    /\ InitNoCall
    /\ mainpc = "init"
    /\ session_open = FALSE
    /\ pc = [s \in PayloadNames |-> "unscheduled"]

NextStream ==
    \/ \E auth_token \in {"", "token"} : StreamStart(auth_token)
    \/ \E response \in StreamResponses : StreamPage(response)
    \/ Tick

SpecStream == InitStreamOnly /\ [][NextStream]_vars

\* ------------------------------------------- load_env_config and deep_merge
\* a YAML value: null, a scalar, or a mapping from keys to values
Null == [kind |-> "null", v |-> 0, items |-> <<>>]

Scalar(n) == [kind |-> "scalar", v |-> n, items |-> <<>>]

Map(items) == [kind |-> "map", v |-> 0, items |-> items]

\* the truth value of a YAML value: None, 0 and {} are false
Truthy(value) ==
    IF value.kind = "map" THEN value.items # <<>>
    ELSE IF value.kind = "scalar" THEN value.v # 0
    ELSE FALSE

\* variant: the override never descends into a mapping, it replaces it
deep_merge_Shallow(source, destination) ==
    [key \in DOMAIN source \cup DOMAIN destination |->
        IF key \in DOMAIN source THEN source[key] ELSE destination[key]]

\* deep_merge(source, destination) on two dicts; the dict it returns is the
\* destination, updated in place
RECURSIVE deep_merge(_, _)
deep_merge(source, destination) ==
    [key \in DOMAIN source \cup DOMAIN destination |->
        IF key \notin DOMAIN source THEN destination[key]
        ELSE LET value == source[key]
             IN  IF /\ value.kind = "map"
                    /\ key \in DOMAIN destination
                    /\ destination[key].kind = "map"
                 THEN Map(deep_merge(value.items, destination[key].items))
                 ELSE value]

\* a configuration file: missing, or the document yaml.safe_load gives
\* (Null for an empty file)
MissingFile == [exists |-> FALSE, doc |-> Null]

File(doc) == [exists |-> TRUE, doc |-> doc]

\* yaml.safe_load(f) or {}
LoadYaml(file) == IF Truthy(file.doc) THEN file.doc ELSE Map(<<>>)

\* config after the base file and the override file are read
MergedConfig(files) ==
    LET config == IF files.base.exists THEN LoadYaml(files.base) ELSE Map(<<>>)
    IN  IF files.override.exists
        THEN Map(deep_merge(LoadYaml(files.override).items, config.items))
        ELSE config

Raised(type, names_env) ==
    [status |-> "raised", error |-> type, names_env |-> names_env,
     settings |-> Null, secrets |-> Null]

\* config.get(section, {}).get(env_name, {}): a section that is there but is
\* not a mapping has no get, the lookup raises AttributeError
EnvLookup(config, section, env_name) ==
    IF section \notin DOMAIN config.items THEN [raised |-> FALSE, value |-> Map(<<>>)]
    ELSE LET sec == config.items[section]
         IN  IF sec.kind # "map" THEN [raised |-> TRUE, value |-> Null]
             ELSE IF env_name \in DOMAIN sec.items
                  THEN [raised |-> FALSE, value |-> sec.items[env_name]]
                  ELSE [raised |-> FALSE, value |-> Map(<<>>)]

\* load_env_config(env_name), the two files being its input
load_env_config(env_name, files) ==
    LET config == MergedConfig(files)
        env_settings == EnvLookup(config, "settings", env_name)
        env_secrets == EnvLookup(config, "secrets", env_name)
    IN  IF env_settings.raised \/ env_secrets.raised
        THEN Raised("AttributeError", FALSE)
        ELSE IF ~Truthy(env_settings.value) THEN Raised("ValueError", TRUE)
        ELSE IF ~Truthy(env_secrets.value) THEN Raised("ValueError", TRUE)
        ELSE [status |-> "returned", error |-> "", names_env |-> FALSE,
              settings |-> env_settings.value, secrets |-> env_secrets.value]

\* the extraction of Subsystem B is not running
InitExtractIdle ==
    /\ InitSegments
    /\ InitConstructed
    /\ mainpc = "init"
    /\ session_open = FALSE
    /\ pc = [s \in PayloadNames |-> "unscheduled"]

\* ---- one call of deep_merge
MergeScalars == {Scalar(n) : n \in 1..MaxScalar}

\* dicts over the keys x and y that hold scalars
InnerDicts == UNION {[D -> MergeScalars] : D \in SUBSET {"x", "y"}}

MergeValues == MergeScalars \cup {Map(d) : d \in InnerDicts}

\* dicts over the keys a and b: any value under a, a scalar or a mapping
\* under b
MergeDicts ==
    {d \in UNION {[D -> MergeValues] : D \in SUBSET {"a", "b"}} :
        "b" \in DOMAIN d => d["b"] \in {Scalar(1), Map("x" :> Scalar(1))}}

InitMerge ==
    /\ InitExtractIdle
    /\ InitStream
    /\ InitMainIdle
    /\ fn_pc = "called"
    /\ fn_args \in {[source |-> o, destination |-> b] :
                        o \in MergeDicts, b \in MergeDicts}
    /\ fn_objects = fn_args
    /\ fn_result = <<>>

\* config = deep_merge(override_config, config)
CallDeepMerge ==
    /\ fn_pc = "called"
    /\ LET merged == deep_merge(fn_args.source, fn_args.destination)
       IN  /\ fn_result' = merged
           /\ fn_objects' = [source |-> fn_args.source, destination |-> merged]
    /\ fn_pc' = "returned"
    /\ UNCHANGED <<fn_args, varsA, varsB, varsM>>

NextMerge == CallDeepMerge

SpecMerge == InitMerge /\ [][NextMerge]_vars

\* ---- one call of load_env_config
\* what a file holds for one environment: nothing after the colon, an empty
\* mapping, or parameters
EnvEntries == {Null, Map(<<>>), Map("k" :> Scalar(1))}

\* a section of a file: nothing after the colon, or a mapping of
\* environments
Sections ==
    {Null} \cup
    {Map(s) : s \in {t \in UNION {[D -> EnvEntries] : D \in SUBSET {"dev", "qa"}} :
                        "qa" \in DOMAIN t => t["qa"] = Map("k" :> Scalar(1))}}

\* a file: missing, empty, or a mapping with settings and secrets sections
ConfigFiles ==
    {MissingFile, File(Null)} \cup
    {File(Map(d)) : d \in UNION {[D -> Sections] : D \in SUBSET {"settings", "secrets"}}}

InitConfig ==
    /\ InitExtractIdle
    /\ InitStream
    /\ InitMainIdle
    /\ fn_pc = "called"
    /\ fn_args \in {[env_name |-> "dev", files |-> [base |-> b, override |-> o]] :
                        b \in ConfigFiles, o \in ConfigFiles}
    /\ fn_objects = fn_args
    /\ fn_result = <<>>

\* load_env_config(env_name) returns or raises
CallLoadEnvConfig ==
    /\ fn_pc = "called"
    /\ LET loaded == load_env_config(fn_args.env_name, fn_args.files)
       IN  /\ fn_result' = loaded
           /\ fn_pc' = IF loaded.status = "returned" THEN "returned" ELSE "raised"
    /\ UNCHANGED <<fn_args, fn_objects, varsA, varsB, varsM>>

NextConfig == CallLoadEnvConfig

SpecConfig == InitConfig /\ [][NextConfig]_vars

\* ------------------------------------------------- the analysis functions
\* analysis_data of analyze_certificate_configurations, in insertion order
ConfigFields ==
    <<"renewal_eligibility", "cert_type", "renewal_status", "asv_tag",
      "ba_tag", "aws_region", "environment", "business_application_name",
      "asv_name", "line_of_business", "in_use">>

\* the fields read as cert.field or "Not Found"
OptionalFields ==
    {"asv_tag", "ba_tag", "aws_region", "environment",
     "business_application_name", "asv_name", "line_of_business", "in_use"}

\* sorted(all_fields) takes the fields in this order
SortedFields ==
    <<"asv_name", "asv_tag", "aws_region", "ba_tag",
      "business_application_name", "cert_type", "environment", "in_use",
      "line_of_business", "renewal_eligibility", "renewal_status">>

\* the strings the certificates of the model hold, as sorted() orders them
SortedValues == <<"", "A", "B", "Not Found", "UNKNOWN", "prod">>

Sorted(set, order) == SelectSeq(order, LAMBDA x : x \in set)

Range(seq) == {seq[i] : i \in 1..Len(seq)}

\* value or "Not Found": None and the empty string are both false
OrNotFound(value) == IF value = None \/ value = "" THEN "Not Found" ELSE value

\* the entry of analysis_data[field] for one certificate
FieldValue(cert, field) ==
    IF field \in OptionalFields THEN OrNotFound(cert[field]) ELSE cert[field]

\* round to the nearest integer, a tie to the even one: what the format
\* specifier .1f does to the tenths of a value that is exact in binary
RoundHalfEven(num, den) ==
    LET q == num \div den
        r == num % den
    IN  IF 2 * r < den THEN q
        ELSE IF 2 * r > den THEN q + 1
        ELSE IF q % 2 = 0 THEN q ELSE q + 1

\* variant: the percentage is cut to one decimal, not rounded
FormatPct_Truncated(count, total) ==
    IF total > 0 THEN (count * 1000) \div total ELSE 0

\* f"{(count / total * 100) if total > 0 else 0:.1f}%": the string is held
\* as its number of tenths, "33.3%" is 333
FormatPct(count, total) ==
    IF total > 0 THEN RoundHalfEven(count * 1000, total) ELSE 0

\* variant: the difference is formatted without the sign flag
FormatDiff_Unsigned(rc, rt, nc, nt) ==
    LET num == (IF rt > 0 THEN rc ELSE 0) * (IF nt > 0 THEN nt ELSE 1)
                 - (IF nt > 0 THEN nc ELSE 0) * (IF rt > 0 THEN rt ELSE 1)
        den == (IF rt > 0 THEN rt ELSE 1) * (IF nt > 0 THEN nt ELSE 1)
    IN  [sign |-> IF num < 0 THEN "-" ELSE "",
         tenths |-> RoundHalfEven(1000 * (IF num < 0 THEN -num ELSE num), den)]

\* f"{rotating_pct - non_rotating_pct:+.1f}%" of the two unrounded
\* percentages rc/rt*100 and nc/nt*100 (0 for an empty population): the
\* string is held as its sign and its number of tenths, "-0.0%" is ("-", 0)
FormatDiff(rc, rt, nc, nt) ==
    LET num == (IF rt > 0 THEN rc ELSE 0) * (IF nt > 0 THEN nt ELSE 1)
                 - (IF nt > 0 THEN nc ELSE 0) * (IF rt > 0 THEN rt ELSE 1)
        den == (IF rt > 0 THEN rt ELSE 1) * (IF nt > 0 THEN nt ELSE 1)
    IN  [sign |-> IF num < 0 THEN "-" ELSE "+",
         tenths |-> RoundHalfEven(1000 * (IF num < 0 THEN -num ELSE num), den)]

\* .str.replace('%', '').astype(float), in tenths
ParseDiff(difference) ==
    IF difference.sign = "-" THEN -difference.tenths ELSE difference.tenths

\* the keys of Counter(values) in the order of their first occurrence
RECURSIVE DistinctInOrder(_)
DistinctInOrder(values) ==
    IF values = <<>> THEN <<>>
    ELSE LET front == DistinctInOrder(SubSeq(values, 1, Len(values) - 1))
             last == values[Len(values)]
         IN  IF last \in Range(front) THEN front ELSE Append(front, last)

\* Counter(values)[value], the certificates being held as runs of n equal
\* ones
RECURSIVE CountValue(_, _, _)
CountValue(certificates, field, value) ==
    IF certificates = <<>> THEN 0
    ELSE (IF FieldValue(Head(certificates).cert, field) = value
          THEN Head(certificates).n ELSE 0)
            + CountValue(Tail(certificates), field, value)

\* the rows of one field
FieldRows(certificates, field) ==
    LET values == DistinctInOrder(
                      [i \in 1..Len(certificates) |->
                          FieldValue(certificates[i].cert, field)])
        total_count == CountOf(certificates)
    IN  [k \in 1..Len(values) |->
            LET count == CountValue(certificates, field, values[k])
            IN  [Field |-> field, Value |-> values[k], Count |-> count,
                 Percentage |-> FormatPct(count, total_count)]]

\* analyze_certificate_configurations: the DataFrame as the sequence of its
\* rows
analyze_certificate_configurations(certificates) ==
    IF certificates = <<>> THEN <<>>
    ELSE Concat([f \in 1..Len(ConfigFields) |->
                    FieldRows(certificates, ConfigFields[f])])

\* Count of the row of (field, value) in a summary, 0 if there is none
SummaryCount(summary, field, value) ==
    LET match == SelectSeq(summary, LAMBDA r : r.Field = field /\ r.Value = value)
    IN  IF match = <<>> THEN 0 ELSE match[1].Count

\* the rows of one field of the comparison
ComparisonRows(rotating_summary, non_rotating_summary, field, total_rotating, total_non_rotating) ==
    LET all_values ==
            {r.Value : r \in {x \in Range(rotating_summary) \cup
                                     Range(non_rotating_summary) :
                                  x.Field = field}}
        values == Sorted(all_values, SortedValues)
    IN  [k \in 1..Len(values) |->
            LET rotating_count == SummaryCount(rotating_summary, field, values[k])
                non_rotating_count ==
                    SummaryCount(non_rotating_summary, field, values[k])
            IN  [Field |-> field, Value |-> values[k],
                 Rotating_Count |-> rotating_count,
                 Rotating_Pct |-> FormatPct(rotating_count, total_rotating),
                 Non_Rotating_Count |-> non_rotating_count,
                 Non_Rotating_Pct |->
                     FormatPct(non_rotating_count, total_non_rotating),
                 Difference |-> FormatDiff(rotating_count, total_rotating,
                                           non_rotating_count,
                                           total_non_rotating)]]

\* create_comparative_analysis
create_comparative_analysis(rotating_configs, non_rotating_configs) ==
    LET rotating_summary == analyze_certificate_configurations(rotating_configs)
        non_rotating_summary ==
            analyze_certificate_configurations(non_rotating_configs)
        all_fields == {r.Field : r \in Range(rotating_summary) \cup
                                       Range(non_rotating_summary)}
        fields == Sorted(all_fields, SortedFields)
    IN  Concat([f \in 1..Len(fields) |->
                  ComparisonRows(rotating_summary, non_rotating_summary,
                                 fields[f], CountOf(rotating_configs),
                                 CountOf(non_rotating_configs))])

\* the row with the column Diff_Numeric added
WithDiffNumeric(row) == row @@ ("Diff_Numeric" :> ParseDiff(row.Difference))

\* sort_values('Diff_Numeric', ascending=False); rows of equal difference
\* are kept in the order of the table
RECURSIVE SortDescending(_)
SortDescending(rows) ==
    IF rows = <<>> THEN <<>>
    ELSE LET i == CHOOSE i \in 1..Len(rows) :
                      /\ \A j \in 1..Len(rows) :
                            rows[j].Diff_Numeric <= rows[i].Diff_Numeric
                      /\ \A j \in 1..(i - 1) :
                            rows[j].Diff_Numeric < rows[i].Diff_Numeric
         IN  <<rows[i]>> \o
             SortDescending(SubSeq(rows, 1, i - 1) \o SubSeq(rows, i + 1, Len(rows)))

\* a number of percentage points in tenths, the unit of Diff_Numeric here
Points(n) == n * 10

\* abs(comparison_df['Diff_Numeric']) > 10
Significant(diff_numeric) ==
    (IF diff_numeric < 0 THEN -diff_numeric ELSE diff_numeric) > Points(10)

\* variant: twenty points of difference already make a predictor
StrongPredictor_AtLeast(diff_numeric) == diff_numeric >= Points(20)

\* comparison_df['Diff_Numeric'] > 20
StrongPredictor(diff_numeric) == diff_numeric > Points(20)

\* comparison_df['Diff_Numeric'] < -20
RotationBlocker(diff_numeric) == diff_numeric < -Points(20)

\* rotating_certs / total_certs * 100 if total_certs > 0 else 0, held as a
\* fraction
RotationRate(rotating_certs, total_certs) ==
    IF total_certs > 0 THEN [num |-> rotating_certs * 100, den |-> total_certs]
    ELSE [num |-> 0, den |-> 1]

\* variant: an empty table gives the four entries too, with empty lists
generate_rotation_insights_NoEarlyReturn(comparison_df, analysis_result) ==
    LET df == [i \in 1..Len(comparison_df) |->
                  WithDiffNumeric(comparison_df[i])]
    IN  [insights |->
            "significant_differences" :>
                SortDescending(SelectSeq(df,
                    LAMBDA r : Significant(r.Diff_Numeric)))
            @@ "rotation_predictors" :>
                SelectSeq(df, LAMBDA r : StrongPredictor(r.Diff_Numeric))
            @@ "rotation_blockers" :>
                SelectSeq(df, LAMBDA r : RotationBlocker(r.Diff_Numeric))
            @@ "rotation_rate" :>
                RotationRate(analysis_result.matching_certificates,
                             analysis_result.total_api_certificates),
         comparison_df |-> df]

\* generate_rotation_insights: the dict it returns and the table as the call
\* leaves it
generate_rotation_insights(comparison_df, analysis_result) ==
    IF comparison_df = <<>>
    THEN [insights |-> <<>>, comparison_df |-> comparison_df]
    ELSE LET df == [i \in 1..Len(comparison_df) |->
                       WithDiffNumeric(comparison_df[i])]
         IN  [insights |->
                 "significant_differences" :>
                     SortDescending(SelectSeq(df,
                         LAMBDA r : Significant(r.Diff_Numeric)))
                 @@ "rotation_predictors" :>
                     SelectSeq(df, LAMBDA r : StrongPredictor(r.Diff_Numeric))
                 @@ "rotation_blockers" :>
                     SelectSeq(df, LAMBDA r : RotationBlocker(r.Diff_Numeric))
                 @@ "rotation_rate" :>
                     RotationRate(analysis_result.matching_certificates,
                                  analysis_result.total_api_certificates),
              comparison_df |-> df]

\* list(a_set)[:10]: the first ten elements in the order the set is iterated
ListHead(a_set, iteration_order) ==
    LET as_list == Sorted(a_set, iteration_order)
    IN  SubSeq(as_list, 1, IF Len(as_list) < 10 THEN Len(as_list) ELSE 10)

\* variant: the overlap is taken for the whole API side
diagnose_arn_mismatches_ApiAsOverlap(dataset, api, iteration_order) ==
    [dataset_only_count |-> Cardinality(dataset \ api),
     api_only_count |-> Cardinality(api \ dataset),
     overlap_count |-> Cardinality(api),
     dataset_only_sample |-> ListHead(dataset \ api, iteration_order),
     api_only_sample |-> ListHead(api \ dataset, iteration_order)]

\* diagnose_arn_mismatches; iteration_order is the order in which Python
\* iterates the elements of a set
diagnose_arn_mismatches(dataset, api, iteration_order) ==
    LET missing_in_api == dataset \ api
        missing_in_dataset == api \ dataset
    IN  [dataset_only_count |-> Cardinality(missing_in_api),
         api_only_count |-> Cardinality(missing_in_dataset),
         overlap_count |-> Cardinality(dataset \cap api),
         dataset_only_sample |-> ListHead(missing_in_api, iteration_order),
         api_only_sample |-> ListHead(missing_in_dataset, iteration_order)]

\* ---- certificates of the analysis
\* a certificate with the given ARN, type and environment
CertificateOf(arn, cert_type, environment) ==
    [DefaultCertificate EXCEPT !.arn = arn, !.cert_type = cert_type,
                               !.environment = environment]

\* certificates that differ in type, and in an environment that is absent,
\* empty or given
AnalysisCertificates ==
    {CertificateOf("arn:a", "A", None), CertificateOf("arn:b", "B", "prod"),
     CertificateOf("arn:e", "A", "")}

\* lists of at most maxLen certificates
CertificateLists(maxLen) ==
    UNION {[1..m -> AnalysisCertificates] : m \in 0..maxLen}

\* ---- one call of analyze_certificate_configurations
InitAnalyze ==
    /\ InitExtractIdle
    /\ InitStream
    /\ InitMainIdle
    /\ fn_pc = "called"
    /\ fn_args \in {[certificates |-> [i \in 1..Len(l) |-> [cert |-> l[i], n |-> 1]]] :
                        l \in CertificateLists(MaxCertificates)}
    /\ fn_objects = fn_args
    /\ fn_result = <<>>

CallAnalyze ==
    /\ fn_pc = "called"
    /\ fn_result' = analyze_certificate_configurations(fn_args.certificates)
    /\ fn_pc' = "returned"
    /\ UNCHANGED <<fn_args, fn_objects, varsA, varsB, varsM>>

NextAnalyze == CallAnalyze

SpecAnalyze == InitAnalyze /\ [][NextAnalyze]_vars

\* ---- create_comparative_analysis, then generate_rotation_insights
\* a population of i certificates of type A and j of type B, as runs
Population(arn_a, arn_b, i, j) ==
    (IF i > 0 THEN <<[cert |-> CertificateOf(arn_a, "A", None), n |-> i]>>
     ELSE <<>>)
        \o (IF j > 0 THEN <<[cert |-> CertificateOf(arn_b, "B", "prod"), n |-> j]>>
            ELSE <<>>)

InitCompare ==
    /\ InitExtractIdle
    /\ InitStream
    /\ InitMainIdle
    /\ fn_pc = "called"
    /\ fn_args \in {[rotating_configs |-> Population("arn:a", "arn:b", i, j),
                     non_rotating_configs |-> Population("arn:x", "arn:y", k, l)] :
                        i \in 0..MaxPopulation, j \in 0..MaxPopulation,
                        k \in 0..MaxPopulation, l \in 0..MaxPopulation}
    /\ fn_objects = <<>>
    /\ fn_result = <<>>

\* comparison_df = create_comparative_analysis(rotating_configs,
\* non_rotating_configs)
CallCompare ==
    /\ fn_pc = "called"
    /\ LET comparison_df == create_comparative_analysis(
                                fn_args.rotating_configs,
                                fn_args.non_rotating_configs)
       IN  /\ fn_result' = [comparison_df |-> comparison_df, insights |-> <<>>]
           /\ fn_objects' = [comparison_df |-> comparison_df]
    /\ fn_pc' = "compared"
    /\ UNCHANGED <<fn_args, varsA, varsB, varsM>>

\* generate_rotation_insights(comparison_df, analysis_result)
CallInsights ==
    /\ fn_pc = "compared"
    /\ LET analysis_result ==
               [total_api_certificates |->
                    CountOf(fn_args.rotating_configs)
                        + CountOf(fn_args.non_rotating_configs),
                matching_certificates |-> CountOf(fn_args.rotating_configs)]
           call == generate_rotation_insights(fn_objects.comparison_df,
                                              analysis_result)
       IN  /\ fn_result' = [fn_result EXCEPT !.insights = call.insights]
           /\ fn_objects' = [comparison_df |-> call.comparison_df]
    /\ fn_pc' = "returned"
    /\ UNCHANGED <<fn_args, varsA, varsB, varsM>>

NextCompare ==
    \/ CallCompare
    \/ CallInsights

SpecCompare == InitCompare /\ [][NextCompare]_vars

\* ---- one call of diagnose_arn_mismatches
\* ARNs found only in the dataset, and only in the API
DatasetPadding(k) == {"arn:d" \o ToString(i) : i \in 1..k}

ApiPadding(k) == {"arn:p" \o ToString(i) : i \in 1..k}

\* sides small enough to be sampled whole, and sides of more than ten ARNs
PaddingSizes == {0, 9}

\* the ARNs of the model in one order, and the orders got by rotating it
ArnSequence ==
    <<"X", "Y", "Z">>
        \o [i \in 1..9 |-> "arn:d" \o ToString(i)]
        \o [i \in 1..9 |-> "arn:p" \o ToString(i)]

IterationOrders ==
    {[i \in 1..Len(ArnSequence) |->
         ArnSequence[((i + shift - 1) % Len(ArnSequence)) + 1]] :
            shift \in 0..MaxShift}

InitDiagnose ==
    /\ InitExtractIdle
    /\ InitStream
    /\ InitMainIdle
    /\ fn_pc = "called"
    /\ fn_args \in {[dataset_arns |-> d \cup DatasetPadding(kd),
                     api_arns |-> a \cup ApiPadding(ka)] :
                        d \in SUBSET {"X", "Y", "Z"}, kd \in PaddingSizes,
                        a \in SUBSET {"X", "Y", "Z"}, ka \in PaddingSizes}
    /\ fn_objects = fn_args
    /\ fn_result = <<>>

\* arn_diagnosis = diagnose_arn_mismatches(dataset_arns, api_arns); the two
\* sets are read, never assigned
CallDiagnose(iteration_order) ==
    /\ fn_pc = "called"
    /\ fn_result' = diagnose_arn_mismatches(fn_objects.dataset_arns,
                                            fn_objects.api_arns,
                                            iteration_order)
    /\ fn_pc' = "returned"
    /\ UNCHANGED <<fn_args, fn_objects, varsA, varsB, varsM>>

NextDiagnose == \E order \in IterationOrders : CallDiagnose(order)

SpecDiagnose == InitDiagnose /\ [][NextDiagnose]_vars

\* ===================================================================== main
NoExit == -1

NoResult == <<>>

\* the steps of the try block of main, in the order of the code
StepOrder ==
    <<"load_config", "connect", "fetch_arns", "close", "stream", "analyse",
      "print", "persist">>

\* the files save_analysis_results writes, in the order it writes them
ArtifactFiles ==
    <<"certificate_comparison_analysis.csv",
      "rotating_certificates_detailed.csv",
      "non_rotating_certificates_detailed.csv", "rotation_insights.json">>

\* auth_token = args.token or ""
AuthToken == IF args.token \in {None, ""} THEN "" ELSE args.token

\* a step ran to its end, or raised
Done(step) == Append(steps, [step |-> step, outcome |-> "done"])

Failed(step) == Append(steps, [step |-> step, outcome |-> "raised"])

\* except Exception: the error is logged and main returns 1
ReturnOne(step) ==
    /\ steps' = Failed(step)
    /\ main_pc' = "returned"
    /\ exit_code' = 1

\* env_settings, env_secrets = load_env_config(args.env)
MainLoadConfig ==
    /\ main_pc = "load_config"
    /\ LET loaded == load_env_config(args.env, config_files)
       IN  IF loaded.status = "returned"
           THEN /\ env_config' = <<loaded.settings, loaded.secrets>>
                /\ main_pc' = "connect"
                /\ steps' = Done("load_config")
                /\ UNCHANGED exit_code
           ELSE /\ ReturnOne("load_config")
                /\ UNCHANGED env_config
    /\ UNCHANGED <<args, config_files, snf_conn, dataset_arns, result,
                   summary_printed, artifacts>>
    /\ UNCHANGED <<varsA, varsB, varsP>>

\* snf_conn = get_snowflake_connection(env_settings, env_secrets): the
\* connection is opened, or the connector raises
MainConnect(connected) ==
    /\ main_pc = "connect"
    /\ IF connected
       THEN /\ snf_conn' = "open"
            /\ main_pc' = "fetch_arns"
            /\ steps' = Done("connect")
            /\ UNCHANGED exit_code
       ELSE /\ ReturnOne("connect")
            /\ UNCHANGED snf_conn
    /\ UNCHANGED <<args, config_files, env_config, dataset_arns, result,
                   summary_printed, artifacts>>
    /\ UNCHANGED <<varsA, varsB, varsP>>

\* dataset_arns = get_dataset_arns(snf_conn): the set of ARNs, or the query
\* raises; answer.raised tells which
MainFetchArns(answer) ==
    /\ main_pc = "fetch_arns"
    /\ IF answer.raised
       THEN /\ ReturnOne("fetch_arns")
            /\ UNCHANGED dataset_arns
       ELSE /\ dataset_arns' = answer.arns
            /\ main_pc' = "close"
            /\ steps' = Done("fetch_arns")
            /\ UNCHANGED exit_code
    /\ UNCHANGED <<args, config_files, env_config, snf_conn, result,
                   summary_printed, artifacts>>
    /\ UNCHANGED <<varsA, varsB, varsP>>

\* variant: the connection is left open while the API is streamed
MainCloseConnection_LeftOpen ==
    /\ main_pc = "close"
    /\ main_pc' = "stream"
    /\ steps' = Done("close")
    /\ UNCHANGED <<args, config_files, env_config, snf_conn, dataset_arns,
                   result, summary_printed, artifacts, exit_code>>
    /\ UNCHANGED <<varsA, varsB, varsP>>

\* snf_conn.close()
MainCloseConnection ==
    /\ main_pc = "close"
    /\ snf_conn' = "closed"
    /\ main_pc' = "stream"
    /\ steps' = Done("close")
    /\ UNCHANGED <<args, config_files, env_config, dataset_arns, result,
                   summary_printed, artifacts, exit_code>>
    /\ UNCHANGED <<varsA, varsB, varsP>>

\* list(stream_api_certificates(...)) drives the generator: its first step
MainStreamStart ==
    /\ main_pc = "stream"
    /\ StreamStart(AuthToken)

\* ... and one more page
MainStreamPage(response) ==
    /\ main_pc = "stream"
    /\ StreamPage(response)

\* variant: main goes on with the certificates yielded before the error
MainStreamRaised_KeepsYielded ==
    /\ main_pc = "stream"
    /\ stream_pc = "raised"
    /\ main_pc' = "analyse"
    /\ steps' = Done("stream")
    /\ UNCHANGED <<args, config_files, env_config, snf_conn, dataset_arns,
                   result, summary_printed, artifacts, exit_code>>
    /\ UNCHANGED <<varsA, varsB, varsP>>

\* the generator raised: list() raises, main returns 1
MainStreamRaised ==
    /\ main_pc = "stream"
    /\ stream_pc = "raised"
    /\ ReturnOne("stream")
    /\ UNCHANGED <<args, config_files, env_config, snf_conn, dataset_arns,
                   result, summary_printed, artifacts>>
    /\ UNCHANGED <<varsA, varsB, varsP>>

\* the generator is exhausted: api_certificates is the list of what it
\* yielded
MainStreamDone ==
    /\ main_pc = "stream"
    /\ stream_pc = "ended"
    /\ main_pc' = "analyse"
    /\ steps' = Done("stream")
    /\ UNCHANGED <<args, config_files, env_config, snf_conn, dataset_arns,
                   result, summary_printed, artifacts, exit_code>>
    /\ UNCHANGED <<varsA, varsB, varsP>>

\* variant: a certificate counts as rotating when its ARN is not empty
InDataset_AnyArn(cert, dataset) == cert.arn # ""

\* cert.arn in dataset_arns
InDataset(cert, dataset) == cert.arn \in dataset

\* lines 557-578 of main: the API ARN set, the diagnosis, the two
\* populations, the comparison, the AnalysisResult and its insights
AnalysisOf(certificates, dataset, iteration_order) ==
    LET api_arns == {certificates[i].cert.arn :
                        i \in 1..Len(certificates)} \ {""}
        arn_diagnosis == diagnose_arn_mismatches(dataset, api_arns,
                                                 iteration_order)
        rotating_configs ==
            SelectSeq(certificates, LAMBDA r : InDataset(r.cert, dataset))
        non_rotating_configs ==
            SelectSeq(certificates, LAMBDA r : ~InDataset(r.cert, dataset))
        comparison_df == create_comparative_analysis(rotating_configs,
                                                     non_rotating_configs)
        analysis_result ==
            [total_api_certificates |-> CountOf(certificates),
             total_dataset_certificates |-> Cardinality(dataset),
             matching_certificates |-> CountOf(rotating_configs),
             api_only_certificates |-> CountOf(non_rotating_configs),
             dataset_only_arns |-> dataset \ api_arns,
             rotating_configs |-> rotating_configs,
             non_rotating_configs |-> non_rotating_configs]
        call == generate_rotation_insights(comparison_df, analysis_result)
    IN  analysis_result
            @@ [comparison_df |-> call.comparison_df,
                insights |-> call.insights @@ ("arn_diagnosis" :> arn_diagnosis)]

MainAnalyse(iteration_order) ==
    /\ main_pc = "analyse"
    /\ result' = AnalysisOf(yielded, dataset_arns, iteration_order)
    /\ main_pc' = "print"
    /\ steps' = Done("analyse")
    /\ UNCHANGED <<args, config_files, env_config, snf_conn, dataset_arns,
                   summary_printed, artifacts, exit_code>>
    /\ UNCHANGED <<varsA, varsB, varsP>>

\* print_analysis_summary(analysis_result) and the full table; writing to
\* standard output succeeds or raises
MainPrint(printed) ==
    /\ main_pc = "print"
    /\ IF printed
       THEN /\ summary_printed' = TRUE
            /\ main_pc' = "persist"
            /\ steps' = Done("print")
            /\ UNCHANGED exit_code
       ELSE /\ ReturnOne("print")
            /\ UNCHANGED summary_printed
    /\ UNCHANGED <<args, config_files, env_config, snf_conn, dataset_arns,
                   result, artifacts>>
    /\ UNCHANGED <<varsA, varsB, varsP>>

\* variant: the low match count is only logged
ExitCodeOf_NeverTwo(matching_certificates) == 0

\* if analysis_result.matching_certificates < 100: return 2, else return 0
ExitCodeOf(matching_certificates) ==
    IF matching_certificates < LOW_MATCH_COUNT THEN 2 ELSE 0

\* save_analysis_results writes its files one after the other; the first
\* `written` of them succeed, the next write raises if there is one; after
\* all four, main returns 2 or 0
MainPersist(written) ==
    /\ main_pc = "persist"
    /\ artifacts' = {ArtifactFiles[i] : i \in 1..written}
    /\ IF written = Len(ArtifactFiles)
       THEN /\ steps' = Done("persist")
            /\ main_pc' = "returned"
            /\ exit_code' = ExitCodeOf(result.matching_certificates)
       ELSE ReturnOne("persist")
    /\ UNCHANGED <<args, config_files, env_config, snf_conn, dataset_arns,
                   result, summary_printed>>
    /\ UNCHANGED <<varsA, varsB, varsP>>

\* ---- what main is run with
\* a complete configuration; one whose files do not hold the environment
GoodConfig ==
    File(Map("settings" :> Map("dev" :> Map("k" :> Scalar(1)))
             @@ "secrets" :> Map("dev" :> Map("k" :> Scalar(1)))))

MainConfigFiles ==
    {[base |-> GoodConfig, override |-> MissingFile],
     [base |-> MissingFile, override |-> MissingFile]}

\* the dataset: empty, two hundred ARNs one of which the API also has, or
\* just the ARNs of the API
MainDatasets ==
    {{}, {"arn:a"} \cup DatasetPadding(199), {"arn:a", "arn:x"}}

MainIterationOrder ==
    <<"arn:a", "arn:x">> \o [i \in 1..199 |-> "arn:d" \o ToString(i)]

\* resources of the API: in the dataset or not, or without an ARN
MainResource(arn, cert_type, environment) ==
    [arn |-> arn, well_formed |-> TRUE, mapping |-> TRUE,
     notAfter |-> [kind |-> "absent", t |-> 0],
     cert_type |-> cert_type, environment |-> environment]

MainRuns ==
    {[res |-> MainResource("arn:a", "A", "prod"), n |-> n] : n \in {1, 99, 120}}
        \cup {[res |-> MainResource("arn:x", "B", None), n |-> n] : n \in {1, 30}}
        \cup {[res |-> MainResource("", "B", "prod"), n |-> 1]}

MainResponses ==
    {[kind |-> "ok", runs |-> r, key |-> k] :
        r \in UNION {[1..m -> MainRuns] : m \in 0..(MaxStreamRuns - Len(examined))},
        k \in (IF page_count + 1 < MaxStreamPages
               THEN {NoKey, page_count + 1} ELSE {NoKey})}
        \cup {[kind |-> "http_error", runs |-> <<>>, key |-> NoKey]}

InitMain ==
    /\ InitExtractIdle
    /\ InitStream
    /\ InitNoCall
    /\ main_pc = "load_config"
    /\ args \in {[env |-> "dev", token |-> t] : t \in {None, "", "token"}}
    /\ config_files \in MainConfigFiles
    /\ env_config = <<>>
    /\ snf_conn = "none"
    /\ dataset_arns = {}
    /\ result = NoResult
    /\ summary_printed = FALSE
    /\ artifacts = {}
    /\ exit_code = NoExit
    /\ steps = <<>>

NextMain ==
    \/ MainLoadConfig
    \/ \E connected \in BOOLEAN : MainConnect(connected)
    \/ \E answer \in {[raised |-> TRUE, arns |-> {}]}
                        \cup {[raised |-> FALSE, arns |-> d] : d \in MainDatasets} :
          MainFetchArns(answer)
    \/ MainCloseConnection
    \/ MainStreamStart
    \/ \E response \in MainResponses : MainStreamPage(response)
    \/ MainStreamRaised
    \/ MainStreamDone
    \/ MainAnalyse(MainIterationOrder)
    \/ \E printed \in BOOLEAN : MainPrint(printed)
    \/ \E written \in 0..Len(ArtifactFiles) : MainPersist(written)

SpecMain == InitMain /\ [][NextMain]_vars

\* ======================================================= x.py: log records
MaxTaskId == 4

LogLevels == {"DEBUG", "INFO", "WARNING", "ERROR"}

\* the names get_name() can give: asyncio's default, the ones payload_task
\* sets, or none because get_name() raises
TaskNames == {"Task-1", "<get_name raises>"} \cup
             {"payload-" \o s : s \in PayloadNames}

NoTask == [id |-> 0, name |-> ""]

\* where a record is created: no running loop, a loop but no task (a
\* callback), or inside a task; id(task) is an address, never 0
CreationContexts ==
    {[loop |-> FALSE, task |-> NoTask], [loop |-> TRUE, task |-> NoTask]} \cup
    {[loop |-> TRUE, task |-> [id |-> i, name |-> n]] :
        i \in 1..MaxTaskId, n \in TaskNames}

\* asyncio.current_task(): RuntimeError without a running loop, else the
\* task or None
current_task(context) ==
    IF ~context.loop THEN [raised |-> "RuntimeError", task |-> NoTask]
    ELSE [raised |-> None, task |-> context.task]

\* current_task.get_name(), or the name synthesized from id(current_task)
TaskNameOf(task) ==
    IF task.name = "<get_name raises>" THEN "task-" \o ToString(task.id)
    ELSE task.name

\* variant: the RuntimeError of current_task() is not caught
record_factory_Uncaught(level, context) ==
    LET current == current_task(context)
    IN  IF current.raised # None
        THEN [raised |-> current.raised, record |-> [levelname |-> level]]
        ELSE IF current.task # NoTask
        THEN [raised |-> None,
              record |-> [levelname |-> level,
                          task_name |-> TaskNameOf(current.task),
                          task_id |-> current.task.id]]
        ELSE [raised |-> None,
              record |-> [levelname |-> level, task_name |-> "sync",
                          task_id |-> 0]]

\* _record_factory: the old factory's record plus task_name and task_id
record_factory(level, context) ==
    LET current == current_task(context)
        task == IF current.raised # None THEN NoTask ELSE current.task
    IN  IF task # NoTask
        THEN [raised |-> None,
              record |-> [levelname |-> level, task_name |-> TaskNameOf(task),
                          task_id |-> task.id]]
        ELSE [raised |-> None,
              record |-> [levelname |-> level, task_name |-> "sync",
                          task_id |-> 0]]

InitLog ==
    /\ InitExtractIdle
    /\ InitStream
    /\ InitMainIdle
    /\ fn_pc = "called"
    /\ fn_args \in {[level |-> l, context |-> c] :
                        l \in LogLevels, c \in CreationContexts}
    /\ fn_objects = fn_args
    /\ fn_result = <<>>

\* one logging call: the logger asks the installed factory for the record
CallRecordFactory ==
    /\ fn_pc = "called"
    /\ fn_result' = record_factory(fn_args.level, fn_args.context)
    /\ fn_pc' = "returned"
    /\ UNCHANGED <<fn_args, fn_objects, varsA, varsB, varsM>>

NextLog == CallRecordFactory

SpecLog == InitLog /\ [][NextLog]_vars

\* ================================================ x.py: run and backfill
MaxBackfillDate == 2

NoDate == "<no date>"

\* the parameters of PLAutomatedMonitoringCTRL1077188.__init__ besides self
InitParameters == {"env", "load_env"}

\* the keyword arguments run() and backfill() give to the constructor (env
\* is positional there; it binds to the parameter of that name)
ConstructorArguments(call) ==
    IF call.entry = "backfill"
    THEN [env |-> call.env, load_env |-> call.load_env,
          snap_dt |-> call.backfill_date]
    ELSE [env |-> call.env, load_env |-> call.load_env]

\* the calls the framework makes: run(env), backfill(env, date, args)
EntryCalls ==
    {[entry |-> "run", env |-> "prod", load_env |-> None,
      backfill_date |-> NoDate, load |-> TRUE, dq_actions |-> TRUE]} \cup
    {[entry |-> "backfill", env |-> "prod", load_env |-> le,
      backfill_date |-> ToString(d), load |-> l, dq_actions |-> dq] :
        le \in {None, "qa"}, d \in 1..MaxBackfillDate, l \in BOOLEAN,
        dq \in BOOLEAN}

InitEntry ==
    /\ InitSegments
    /\ InitStream
    /\ InitMainIdle
    /\ mainpc = "unconstructed"
    /\ session_open = FALSE
    /\ pc = [s \in PayloadNames |-> "unscheduled"]
    /\ api_token = NoToken
    /\ token_exchanges = 0
    /\ headers = [s \in PayloadNames |-> NoHeaders]
    /\ fn_pc = "called"
    /\ fn_args \in EntryCalls
    /\ fn_objects = <<>>
    /\ fn_result = <<>>

\* pipeline = PLAutomatedMonitoringCTRL1077188(...): a keyword that __init__
\* does not declare is a TypeError; else __init__ runs and exchanges the token
EntryConstruct ==
    /\ fn_pc = "called"
    /\ mainpc = "unconstructed"
    /\ LET kwargs == ConstructorArguments(fn_args)
       IN  IF DOMAIN kwargs \subseteq InitParameters
           THEN /\ fn_pc' = "constructed"
                /\ fn_objects' = [pipeline |-> kwargs, config |-> None]
                /\ token_exchanges' = token_exchanges + 1
                /\ api_token' = refresh(token_exchanges + 1)
                /\ mainpc' = "init"
                /\ UNCHANGED fn_result
           ELSE /\ fn_pc' = "raised"
                /\ fn_result' = [type |-> "TypeError",
                                 unexpected |-> DOMAIN kwargs \ InitParameters]
                /\ UNCHANGED <<fn_objects, token_exchanges, api_token, mainpc>>
    /\ UNCHANGED <<pc, all_resources_for_payload, next_record_key,
                   current_payload, page_index, attempt, retry_delay,
                   task_exception, session_open, api_certificates,
                   raised_exception, log, served, returned_keys, finish_order,
                   headers>>
    /\ UNCHANGED <<fn_args, varsA, varsM>>

\* pipeline.configure.from_filename(".../config.yaml")
EntryConfigure ==
    /\ fn_pc = "constructed"
    /\ fn_pc' = "configured"
    /\ fn_objects' = [fn_objects EXCEPT !.config = "config.yaml"]
    /\ UNCHANGED <<fn_args, fn_result, varsA, varsB, varsM>>

\* pipeline.run(load=..., dq_actions=...): the framework runs its stages
EntryRun ==
    /\ fn_pc = "configured"
    /\ fn_pc' = "running"
    /\ UNCHANGED <<fn_args, fn_objects, fn_result, varsA, varsB, varsM>>

\* extract() hands {"api_certificates": df} to the framework, or raises; run
\* returns the framework's result to the caller of the entry point
EntryReturn ==
    /\ fn_pc = "running"
    /\ mainpc \in {"returned", "raised"}
    /\ IF mainpc = "raised"
       THEN /\ fn_pc' = "raised"
            /\ fn_result' = raised_exception
       ELSE /\ fn_pc' = "returned"
            /\ fn_result' = [api_certificates |-> api_certificates]
    /\ UNCHANGED <<fn_args, fn_objects, varsA, varsB, varsM>>

\* what the API answers during an extract started by an entry point
EntryOutcomes(s) ==
    {o \in OkOutcomes(s, GatherMaxPages, GatherMaxPageResources,
                      {page_index[s] + 1}) :
        o.key = NoKey \/ o.resources # <<>>}
        \cup StatusOutcomes({401})

NextEntry ==
    \/ EntryConstruct
    \/ EntryConfigure
    \/ EntryRun
    \/ fn_pc = "running" /\ ExtractStart
    \/ \E s \in PayloadNames : TaskStart(s)
    \/ \E s \in PayloadNames : \E o \in EntryOutcomes(s) : Receive(s, o)
    \/ \E s \in PayloadNames : WakeRetry(s)
    \/ \E s \in PayloadNames : WakePage(s)
    \/ GatherDone
    \/ EntryReturn

SpecEntry == InitEntry /\ [][NextEntry]_vars

\* ------------------------------------------------------------------ claims
Requests(s) == SelectSeq(log[s], LAMBDA e : e.ev = "request")

\* outcome of each attempt of the current page: the status, -1 for a
\* transport-level client error, -2 for an undecodable 200 body
AttemptOutcomes(s) ==
    LET answers == SelectSeq(log[s], LAMBDA e :
                       e.ev \in {"response", "client_error", "decode_error"})
    IN  [i \in 1..Len(answers) |->
            IF answers[i].ev = "response" THEN answers[i].status
            ELSE IF answers[i].ev = "client_error" THEN -1 ELSE -2]

BackoffSleeps(s) ==
    LET sleeps == SelectSeq(log[s], LAMBDA e : e.ev = "sleep" /\ e.why = "backoff")
    IN  [i \in 1..Len(sleeps) |-> sleeps[i].dur]

\* what the segment's rows must be: the resources the server returned to it,
\* in order, each tagged with the segment's name
ExpectedRows(s) ==
    [i \in 1..Len(served[s]) |->
        [origin |-> served[s][i].origin, page |-> served[s][i].page,
         idx |-> served[s][i].idx, source_payload |-> s]]

FailedSegments == {s \in PayloadNames : pc[s] = "raised"}

\* C1: a page answered 503, 503, 200 succeeds with exactly three requests,
\* backoff sleeps of 0.5 s then 1.0 s and no other, and its resources are
\* accumulated.
C1_RetryThenSuccess ==
    \A s \in PayloadNames :
        AttemptOutcomes(s) = <<503, 503, 200>> =>
            /\ pc[s] \in {"returned", "sleeping_page"}
            /\ Len(Requests(s)) = 3
            /\ BackoffSleeps(s) = <<500, 1000>>
            /\ all_resources_for_payload[s] = ExpectedRows(s)

C1_Witness ==
    \E s \in PayloadNames :
        /\ AttemptOutcomes(s) = <<503, 503, 200>>
        /\ page_index[s] = 2
        /\ Len(all_resources_for_payload[s]) > 0

\* C2: three retryable failures (429, 503 or a transport error, in any mix)
\* on one page make the fetch raise the wrapped error naming the segment and
\* 3 attempts; no fourth request is sent for a page and nothing is returned.
C2_RetryExhausted ==
    \A s \in PayloadNames :
        /\ Len(Requests(s)) <= 3
        /\ (/\ Len(AttemptOutcomes(s)) = 3
            /\ \A i \in 1..3 : AttemptOutcomes(s)[i] \in RetryableStatuses \cup {-1})
           => /\ pc[s] = "raised"
              /\ task_exception[s] = [type |-> "RuntimeError", segment |-> s,
                                      attempts |-> 3, task |-> s]
              /\ Len(Requests(s)) = 3

C2_Witness ==
    \E s \in PayloadNames :
        /\ AttemptOutcomes(s) = <<429, -1, 503>>
        /\ pc[s] = "raised"
        /\ page_index[s] = 1

\* C3: a response whose status is neither 200 nor 429 nor 503 makes the fetch
\* fail at once: nothing (no sleep, no request) follows it for that page.
C3_OtherStatusFailsImmediately ==
    \A s \in PayloadNames :
        \A i \in 1..Len(log[s]) :
            (log[s][i].ev = "response" /\ log[s][i].status \in OtherStatuses)
                => (i = Len(log[s]) /\ pc[s] = "raised")

\* C4: when all three segments succeed the table is the Amazon rows, then the
\* DigiCert rows, then the PCA rows, N+M+K in all, whatever the completion
\* order, and every row is tagged with the segment that fetched it.
C4_CombinedInPayloadOrder ==
    mainpc = "returned" =>
        /\ api_certificates =
              ExpectedRows("Amazon") \o ExpectedRows("DigiCert") \o ExpectedRows("PCA")
        /\ Len(api_certificates) =
              Len(served["Amazon"]) + Len(served["DigiCert"]) + Len(served["PCA"])
        /\ \A i \in 1..Len(api_certificates) :
              api_certificates[i].source_payload = api_certificates[i].origin

C4_Witness ==
    /\ mainpc = "returned"
    /\ \A s \in PayloadNames : Len(served[s]) > 0
    /\ finish_order = <<"PCA", "DigiCert", "Amazon">>

\* C5: if a segment fetch failed, the extraction raises and returns no table,
\* whatever the other segments collected.
C5_FailureDiscardsAll ==
    (mainpc \in {"returned", "raised"} /\ FailedSegments # {}) =>
        /\ mainpc = "raised"
        /\ raised_exception # NoException
        /\ api_certificates = NoTable

C5_Witness ==
    /\ mainpc = "raised"
    /\ Cardinality(FailedSegments) = 1
    /\ \E s \in PayloadNames : pc[s] = "returned" /\ Len(served[s]) > 0

\* C6: an exception reaches the caller only after all three tasks have
\* finished, each by its own return or its own raise.
C6_SiblingsRunToCompletion ==
    mainpc = "raised" =>
        /\ Len(finish_order) = 3
        /\ \A s \in PayloadNames :
              \/ pc[s] = "raised" /\ task_exception[s].task = s
              \/ /\ pc[s] = "returned"
                 /\ next_record_key[s] = NoKey
                 /\ log[s][Len(log[s])].ev = "response"
                 /\ log[s][Len(log[s])].status = 200

C6_Witness ==
    /\ mainpc = "raised"
    /\ Len(finish_order) = 3
    /\ pc[finish_order[1]] = "raised"
    /\ pc[finish_order[3]] = "returned"
    /\ Len(served[finish_order[3]]) > 0

FirstFailedInTime ==
    finish_order[CHOOSE i \in 1..Len(finish_order) :
        /\ pc[finish_order[i]] = "raised"
        /\ \A j \in 1..(i - 1) : pc[finish_order[j]] # "raised"]

FirstFailedInPayloadOrder ==
    payload_order[CHOOSE i \in 1..Len(payload_order) :
        /\ pc[payload_order[i]] = "raised"
        /\ \A j \in 1..(i - 1) : pc[payload_order[j]] # "raised"]

\* C7 as stated: the exception that propagates is the one raised first in
\* time among the segment tasks.
C7_FirstRaisedPropagates ==
    mainpc = "raised" => raised_exception = task_exception[FirstFailedInTime]

\* C7 amended: the exception that propagates is that of the failed segment
\* that comes first in the fixed payload order Amazon, DigiCert, PCA.
C7_FirstInPayloadOrderPropagates ==
    mainpc = "raised" =>
        raised_exception = task_exception[FirstFailedInPayloadOrder]

C7_Witness ==
    /\ mainpc = "raised"
    /\ Cardinality(FailedSegments) >= 2
    /\ FirstFailedInTime # FirstFailedInPayloadOrder
    /\ raised_exception = task_exception[FirstFailedInPayloadOrder]

\* C8: within a segment the first page is requested without a key, a request
\* for page N+1 exists only once pages 1..N have been answered, and it carries
\* exactly the key page N returned.
C8_PagesStrictlyOrdered ==
    \A s \in PayloadNames :
        \A i \in 1..Len(log[s]) :
            log[s][i].ev = "request" =>
                LET p == log[s][i].page
                IN  /\ p >= 1
                    /\ p - 1 <= Len(returned_keys[s])
                    /\ p >= Len(returned_keys[s])
                    /\ IF p = 1 THEN log[s][i].key = NoKey
                       ELSE /\ log[s][i].key = returned_keys[s][p - 1]
                            /\ log[s][i].key # NoKey

C8_Witness ==
    \E s \in PayloadNames :
        \E i \in 1..Len(log[s]) :
            /\ log[s][i].ev = "request"
            /\ log[s][i].page = 2
            /\ log[s][i].attempt = 3
            /\ log[s][i].key = 2

\* the expiry the certificate of an examined resource states: none when the
\* item is absent or unparseable
HasExpiry(res) == res.notAfter.kind \in {"aware", "naive"}

\* C9: a parsed certificate is yielded if and only if its expiry is absent
\* or strictly later than the timestamp taken at stream start.
C9_YieldedIffNotExpired ==
    \A i \in 1..Len(examined) :
        examined[i].res.well_formed =>
            (examined[i].outcome = "yielded"
                <=> (~HasExpiry(examined[i].res)
                        \/ examined[i].res.notAfter.t > now_utc))

\* C10: once the resources examined reach 50000 the stream has ended
\* normally, key or no key, and no page request is sent from that point on.
C10_SafetyCeiling ==
    /\ total_processed >= 50000 =>
            /\ stream_pc = "ended"
            /\ stream_stop \in {"complete", "safety_limit"}
            /\ (stream_next_record_key # NoKey => stream_stop = "safety_limit")
    /\ \A i \in 1..Len(stream_requests) :
            stream_requests[i].total_before < 50000
    /\ page_count = Len(stream_requests)

C10_Witness ==
    /\ stream_pc = "ended"
    /\ stream_stop = "safety_limit"
    /\ total_processed = 50000
    /\ stream_next_record_key # NoKey
    /\ page_count = 2

\* ---- C15
BaseExample == "a" :> Map("x" :> Scalar(1) @@ "y" :> Scalar(2))

OverrideExample == "a" :> Map("y" :> Scalar(3))

MergedExample == "a" :> Map("x" :> Scalar(1) @@ "y" :> Scalar(3))

BothMappings(override, base, key) ==
    /\ key \in DOMAIN override /\ key \in DOMAIN base
    /\ override[key].kind = "map" /\ base[key].kind = "map"

\* the merge of two dicts that hold no mappings: the override's value where
\* it defines the key, the base's value elsewhere
FlatMergeOf(merged, override, base) ==
    /\ DOMAIN merged = DOMAIN override \cup DOMAIN base
    /\ \A key \in DOMAIN merged :
          merged[key] = IF key \in DOMAIN override THEN override[key]
                        ELSE base[key]

\* C15: the deep merge of an override over a base holds, for every key, the
\* recursive merge when both sides hold a mapping, the override's value when
\* the override defines the key and a side is not a mapping, the base's value
\* when only the base defines the key; base {a: {x:1, y:2}} with override
\* {a: {y:3}} gives {a: {x:1, y:3}}
C15_DeepMerge ==
    fn_pc = "returned" =>
        LET override == fn_args.source
            base == fn_args.destination
            merged == fn_result
        IN  /\ DOMAIN merged = DOMAIN override \cup DOMAIN base
            /\ \A key \in DOMAIN merged :
                  IF BothMappings(override, base, key)
                  THEN /\ merged[key].kind = "map"
                       /\ FlatMergeOf(merged[key].items, override[key].items,
                                      base[key].items)
                  ELSE IF key \in DOMAIN override
                  THEN merged[key] = override[key]
                  ELSE merged[key] = base[key]
            /\ (override = OverrideExample /\ base = BaseExample)
                  => merged = MergedExample

C15_Witness ==
    /\ fn_pc = "returned"
    /\ fn_args = [source |-> OverrideExample, destination |-> BaseExample]
    /\ fn_result = MergedExample

\* ---- C16
\* section[env] of the merged configuration is absent or empty
AbsentOrEmpty(config, section, env) ==
    \/ section \notin DOMAIN config.items
    \/ config.items[section].kind # "map"
    \/ env \notin DOMAIN config.items[section].items
    \/ ~Truthy(config.items[section].items[env])

NonEmptyMapping(value) == value.kind = "map" /\ value.items # <<>>

\* C16: load_env_config fails with a configuration error naming the
\* environment whenever settings[env] or secrets[env] of the merged
\* configuration is absent or empty, and whenever it returns both returned
\* mappings are non-empty
C16_MissingEnvironmentFails ==
    fn_pc \in {"returned", "raised"} =>
        LET config == MergedConfig(fn_args.files)
        IN  /\ (\/ AbsentOrEmpty(config, "settings", fn_args.env_name)
                \/ AbsentOrEmpty(config, "secrets", fn_args.env_name))
                  => /\ fn_pc = "raised"
                     /\ fn_result.error = "ValueError"
                     /\ fn_result.names_env
            /\ fn_pc = "returned"
                  => /\ NonEmptyMapping(fn_result.settings)
                     /\ NonEmptyMapping(fn_result.secrets)

\* ---- C17
\* readings of an optional value: only the absent one is "Not Found", or the
\* absent and the empty one are
AbsentIsNotFound(value) == IF value = None THEN "Not Found" ELSE value

AbsentOrEmptyIsNotFound(value) ==
    IF value \in {None, ""} THEN "Not Found" ELSE value

\* the certificates of the list whose field, read with the given reading of
\* an optional value, is the value
HoldersOf(certificates, field, value, reading(_)) ==
    {i \in 1..Len(certificates) :
        (IF field \in OptionalFields
         THEN reading(certificates[i].cert[field])
         ELSE certificates[i].cert[field]) = value}

\* tenths is count / total x 100 to one decimal
ToOneDecimal(tenths, count, total) ==
    LET error == tenths * total - count * 1000
    IN  2 * (IF error < 0 THEN -error ELSE error) <= total

RECURSIVE SumCounts(_)
SumCounts(rows) ==
    IF rows = <<>> THEN 0 ELSE Head(rows).Count + SumCounts(Tail(rows))

\* the table holds, for every field, one row per distinct value under the
\* given reading of an optional value, with its count and percentage
DistributionOf(table, certificates, reading(_)) ==
    \A f \in 1..Len(ConfigFields) :
        LET field == ConfigFields[f]
            rows == SelectSeq(table, LAMBDA r : r.Field = field)
            values == {(IF field \in OptionalFields
                        THEN reading(certificates[i].cert[field])
                        ELSE certificates[i].cert[field]) :
                            i \in 1..Len(certificates)}
        IN  /\ {rows[k].Value : k \in 1..Len(rows)} = values
            /\ Len(rows) = Cardinality(values)
            /\ \A k \in 1..Len(rows) :
                  /\ rows[k].Count = Cardinality(
                         HoldersOf(certificates, field, rows[k].Value, reading))
                  /\ ToOneDecimal(rows[k].Percentage, rows[k].Count,
                                  Len(certificates))
            /\ SumCounts(rows) = Len(certificates)

ListOfTypes(certificates) ==
    [i \in 1..Len(certificates) |-> certificates[i].cert.cert_type]

TypeRows(table) == SelectSeq(table, LAMBDA r : r.Field = "cert_type")

\* C17 as stated: for every field one row per distinct value, only an absent
\* (None) optional value being counted as "Not Found"
C17_OneRowPerValue_AbsentOnly ==
    fn_pc = "returned" /\ fn_args.certificates # <<>> =>
        DistributionOf(fn_result, fn_args.certificates, AbsentIsNotFound)

\* C17: for every non-empty list and each of the eleven fields there is one
\* row per distinct value, an absent or empty optional value being counted
\* as "Not Found"; Count is the number of certificates with the value,
\* Percentage is Count / total x 100 to one decimal, the counts of a field
\* sum to the list length; types [A, A, B, A] give A: 3, 75.0% and B: 1,
\* 25.0%; the empty list gives no rows
C17_OneRowPerValue ==
    fn_pc = "returned" =>
        /\ fn_args.certificates # <<>> =>
              DistributionOf(fn_result, fn_args.certificates,
                             AbsentOrEmptyIsNotFound)
        /\ ListOfTypes(fn_args.certificates) = <<"A", "A", "B", "A">> =>
              {<<r.Value, r.Count, r.Percentage>> : r \in Range(TypeRows(fn_result))}
                  = {<<"A", 3, 750>>, <<"B", 1, 250>>}
        /\ fn_args.certificates = <<>> => fn_result = <<>>

C17_Witness ==
    /\ fn_pc = "returned"
    /\ ListOfTypes(fn_args.certificates) = <<"A", "A", "B", "A">>
    /\ \E i \in 1..Len(fn_args.certificates) :
          fn_args.certificates[i].cert.environment = ""
    /\ \E r \in Range(fn_result) : r.Field = "environment" /\ r.Value = "Not Found"
    /\ Len(TypeRows(fn_result)) = 2

\* ---- C18
\* C18: when the non-rotating population is empty and the rotating one is
\* not, every row of the comparison has Non-Rotating Count 0, Non-Rotating %
\* "0.0%" and a Difference that is its Rotating % with a plus sign; the call
\* returns (no division by zero); and the percentage of an empty population
\* is 0 on every row
C18_EmptyPopulation ==
    fn_pc \in {"compared", "returned"} =>
        LET rows == Range(fn_result.comparison_df)
        IN  /\ (fn_args.non_rotating_configs = <<>>
                    /\ fn_args.rotating_configs # <<>>)
                  => /\ rows # {}
                     /\ \A r \in rows :
                           /\ r.Non_Rotating_Count = 0
                           /\ r.Non_Rotating_Pct = 0
                           /\ r.Difference = [sign |-> "+", tenths |-> r.Rotating_Pct]
            /\ fn_args.non_rotating_configs = <<>>
                  => \A r \in rows : r.Non_Rotating_Pct = 0
            /\ fn_args.rotating_configs = <<>>
                  => \A r \in rows : r.Rotating_Pct = 0

C18_Witness ==
    /\ fn_pc = "compared"
    /\ fn_args.non_rotating_configs = <<>>
    /\ CountOf(fn_args.rotating_configs) = 4
    /\ \E r \in Range(fn_result.comparison_df) :
          /\ r.Field = "cert_type" /\ r.Value = "A"
          /\ r.Rotating_Count = 3 /\ r.Rotating_Pct = 750
          /\ r.Difference = [sign |-> "+", tenths |-> 750]

\* ---- C20
\* d of a row, in tenths: the signed one-decimal number of its Difference
SignedTenths(row) ==
    IF row.Difference.sign = "-" THEN -row.Difference.tenths
    ELSE row.Difference.tenths

\* the row of the table is one of the records of the list
Listed(list, row) ==
    \E k \in 1..Len(list) :
        /\ list[k].Field = row.Field
        /\ list[k].Value = row.Value
        /\ list[k].Difference = row.Difference

\* C20: a row is in significant_differences iff |d| > 10, in
\* rotation_predictors iff d > 20, in rotation_blockers iff d < -20, all
\* strict; significant_differences is sorted by d descending; "+25.0%" is a
\* predictor, "-25.0%" a blocker, "+5.0%" in none of the three lists
C20_StrictThresholds ==
    fn_pc = "returned" /\ fn_result.comparison_df # <<>> =>
        LET insights == fn_result.insights
            significant == insights["significant_differences"]
        IN  /\ \A r \in Range(fn_result.comparison_df) :
                  LET d == SignedTenths(r)
                  IN  /\ Listed(significant, r) <=> (d > 100 \/ d < -100)
                      /\ Listed(insights["rotation_predictors"], r) <=> d > 200
                      /\ Listed(insights["rotation_blockers"], r) <=> d < -200
                      /\ d = 250 => Listed(insights["rotation_predictors"], r)
                      /\ d = -250 => Listed(insights["rotation_blockers"], r)
                      /\ d = 50 =>
                            /\ ~Listed(significant, r)
                            /\ ~Listed(insights["rotation_predictors"], r)
                            /\ ~Listed(insights["rotation_blockers"], r)
            /\ \A k \in 1..Len(significant) : \A l \in k..Len(significant) :
                  SignedTenths(significant[k]) >= SignedTenths(significant[l])

C20_Witness ==
    /\ fn_pc = "returned"
    /\ \E r \in Range(fn_result.comparison_df) :
          /\ r.Difference = [sign |-> "+", tenths |-> 250]
          /\ Listed(fn_result.insights["rotation_predictors"], r)
    /\ \E r \in Range(fn_result.comparison_df) :
          /\ r.Difference = [sign |-> "-", tenths |-> 250]
          /\ Listed(fn_result.insights["rotation_blockers"], r)
    /\ Len(fn_result.insights["significant_differences"]) >= 2

\* ---- C19
SmallerOf(a, b) == IF a < b THEN a ELSE b

\* the list holds size distinct elements of the set
SampleOf(list, set, size) ==
    /\ Len(list) = size
    /\ Range(list) \subseteq set
    /\ Cardinality(Range(list)) = size

\* C19: the diagnosis counts |D \ A|, |A \ D| and |D \cap A|, each sample
\* holds min(10, count) elements of its side, D and A are left unchanged;
\* D = {X, Y}, A = {Y, Z} gives counts 1, 1, 1 and samples [X] and [Z]
C19_DiagnosisCounts ==
    fn_pc = "returned" =>
        LET D == fn_args.dataset_arns
            A == fn_args.api_arns
        IN  /\ fn_result.dataset_only_count = Cardinality(D \ A)
            /\ fn_result.api_only_count = Cardinality(A \ D)
            /\ fn_result.overlap_count = Cardinality(D \cap A)
            /\ SampleOf(fn_result.dataset_only_sample, D \ A,
                        SmallerOf(10, Cardinality(D \ A)))
            /\ SampleOf(fn_result.api_only_sample, A \ D,
                        SmallerOf(10, Cardinality(A \ D)))
            /\ fn_objects = fn_args
            /\ (D = {"X", "Y"} /\ A = {"Y", "Z"})
                  => /\ fn_result.dataset_only_count = 1
                     /\ fn_result.api_only_count = 1
                     /\ fn_result.overlap_count = 1
                     /\ fn_result.dataset_only_sample = <<"X">>
                     /\ fn_result.api_only_sample = <<"Z">>

C19_Witness ==
    /\ fn_pc = "returned"
    /\ fn_args.dataset_arns = {"X", "Y"} \cup DatasetPadding(9)
    /\ fn_args.api_arns = {"Y", "Z"}
    /\ fn_result.dataset_only_count = 10
    /\ fn_result.overlap_count = 1
    /\ fn_result.api_only_sample = <<"Z">>
    /\ Len(fn_result.dataset_only_sample) = 10

\* ---- C11 .. C14
StepsDone(k) ==
    /\ Len(steps) >= k
    /\ \A i \in 1..k : steps[i] = [step |-> StepOrder[i], outcome |-> "done"]

EveryStepDone == Len(steps) = Len(StepOrder) /\ StepsDone(Len(StepOrder))

SomeStepRaised == \E i \in 1..Len(steps) : steps[i].outcome = "raised"

\* C11: with no API token main still loads the configuration, connects to
\* the warehouse and queries it; the stream then raises its configuration
\* error before any API request is sent, main returns 1 and no artifact is
\* written
C11_NoTokenFailsAtStream ==
    AuthToken = "" =>
        /\ stream_requests = <<>>
        /\ artifacts = {}
        /\ stream_pc \in {"created", "raised"}
        /\ stream_pc = "raised" =>
              /\ stream_stop = "ValueError"
              /\ StepsDone(4)
              /\ env_config # <<>> /\ snf_conn = "closed"
        /\ (main_pc = "returned" /\ StepsDone(4)) =>
              /\ steps[5] = [step |-> "stream", outcome |-> "raised"]
              /\ Len(steps) = 5
              /\ exit_code = 1
        /\ main_pc = "returned" => exit_code = 1

C11_Witness ==
    /\ args.token = None
    /\ main_pc = "returned"
    /\ exit_code = 1
    /\ StepsDone(4)
    /\ steps[5] = [step |-> "stream", outcome |-> "raised"]
    /\ Cardinality(dataset_arns) = 200
    /\ stream_requests = <<>>
    /\ artifacts = {}

\* C12: main returns one of 0, 1, 2: 1 iff an exception escaped a step, 2
\* iff every step including persistence completed and matching_certificates
\* < 100, 0 iff every step completed and matching_certificates >= 100
C12_ExitCodes ==
    /\ main_pc # "returned" => exit_code = NoExit
    /\ main_pc = "returned" =>
          /\ exit_code \in {0, 1, 2}
          /\ exit_code = 1 <=> SomeStepRaised
          /\ exit_code = 2 <=>
                /\ EveryStepDone
                /\ Cardinality(artifacts) = 4
                /\ result.matching_certificates < 100
          /\ exit_code = 0 <=>
                /\ EveryStepDone
                /\ Cardinality(artifacts) = 4
                /\ result.matching_certificates >= 100

C12_Witness ==
    /\ main_pc = "returned"
    /\ exit_code = 2
    /\ EveryStepDone
    /\ result.matching_certificates = 99

\* C13: every streamed certificate is in exactly one of rotating_configs
\* (its ARN is in the dataset) and non_rotating_configs (it is not), so
\* matching + api-only = total; the rotation rate is matching / total x 100;
\* 150 API certificates, 120 of them in a 200-ARN dataset, give 120, 30,
\* 80.0 and exit code 0
C13_Partition ==
    result # NoResult =>
        /\ result.rotating_configs =
              SelectSeq(yielded, LAMBDA r : r.cert.arn \in dataset_arns)
        /\ result.non_rotating_configs =
              SelectSeq(yielded, LAMBDA r : r.cert.arn \notin dataset_arns)
        /\ result.total_api_certificates = CountOf(yielded)
        /\ result.matching_certificates = CountOf(result.rotating_configs)
        /\ result.api_only_certificates = CountOf(result.non_rotating_configs)
        /\ result.matching_certificates + result.api_only_certificates
              = result.total_api_certificates
        /\ result.total_api_certificates > 0 =>
              LET rate == result.insights["rotation_rate"]
              IN  rate.num * result.total_api_certificates
                      = result.matching_certificates * 100 * rate.den
        /\ (/\ result.total_api_certificates = 150
            /\ CountOf(SelectSeq(yielded,
                   LAMBDA r : r.cert.arn \in dataset_arns)) = 120
            /\ Cardinality(dataset_arns) = 200)
              => /\ result.matching_certificates = 120
                 /\ result.api_only_certificates = 30
                 /\ result.insights["rotation_rate"].num
                        = 80 * result.insights["rotation_rate"].den
                 /\ (main_pc = "returned" /\ EveryStepDone) => exit_code = 0

C13_Witness ==
    /\ main_pc = "returned"
    /\ exit_code = 0
    /\ Cardinality(dataset_arns) = 200
    /\ result.total_api_certificates = 150
    /\ result.matching_certificates = 120
    /\ result.api_only_certificates = 30
    /\ result.total_dataset_certificates = 200

\* C14: the steps of main occur in the order load configuration, connect,
\* fetch dataset ARNs, close the connection, stream, analyse, print,
\* persist; the connection is closed before the first API request is sent
\* and no artifact is written before the summary is printed
C14_StepOrder ==
    /\ Len(steps) <= Len(StepOrder)
    /\ \A i \in 1..Len(steps) :
          /\ steps[i].step = StepOrder[i]
          /\ i < Len(steps) => steps[i].outcome = "done"
    /\ stream_pc # "created" => StepsDone(4)
    /\ stream_requests # <<>> => snf_conn = "closed"
    /\ result # NoResult => StepsDone(5)
    /\ summary_printed => StepsDone(6)
    /\ artifacts # {} => summary_printed /\ StepsDone(7)

C14_Witness ==
    /\ EveryStepDone
    /\ Len(stream_requests) = 2
    /\ snf_conn = "closed"
    /\ summary_printed
    /\ Cardinality(artifacts) = 4


\* C21: every log record carries task_name and task_id: ("sync", 0) when it
\* is created outside any running task (no running loop included), else the
\* task's name, or "task-<identity>" when the name cannot be read, and the
\* task's non-zero identity; the enrichment never raises.
InsideTask == fn_args.context.loop /\ fn_args.context.task.id # 0

C21_RecordCarriesTask ==
    fn_pc = "returned" =>
        /\ fn_result.raised = None
        /\ {"task_name", "task_id"} \subseteq DOMAIN fn_result.record
        /\ ~InsideTask =>
              /\ fn_result.record.task_name = "sync"
              /\ fn_result.record.task_id = 0
        /\ InsideTask =>
              /\ fn_result.record.task_id = fn_args.context.task.id
              /\ fn_result.record.task_id # 0
              /\ fn_result.record.task_name =
                    IF fn_args.context.task.name = "<get_name raises>"
                    THEN "task-" \o ToString(fn_args.context.task.id)
                    ELSE fn_args.context.task.name

C21_Witness ==
    /\ fn_pc = "returned"
    /\ ~fn_args.context.loop
    /\ fn_result.record.task_name = "sync"

C21_WitnessSynthesized ==
    /\ fn_pc = "returned"
    /\ InsideTask
    /\ fn_result.record.task_name = "task-3"


\* C22: backfill constructs the pipeline with the environment context and the
\* snapshot date, then loads config.yaml, then invokes run and returns its
\* result: construction succeeds on the backfill path as on the run path.
C22_BackfillConstructs ==
    fn_args.entry = "backfill" /\ fn_pc # "called" =>
        /\ ~(fn_pc = "raised" /\ fn_result.type = "TypeError")
        /\ fn_objects.pipeline.snap_dt = fn_args.backfill_date

\* the run path, for comparison: construction succeeds and the steps follow
C22_RunConstructs ==
    fn_args.entry = "run" /\ fn_pc # "called" =>
        /\ fn_objects.pipeline = [env |-> fn_args.env, load_env |-> fn_args.load_env]
        /\ fn_pc \in {"running", "returned", "raised"} =>
              fn_objects.config = "config.yaml"


\* C24: the bearer token is obtained by exactly one token exchange, at
\* construction; every request of every page, attempt and segment of an
\* extract carries that token, and no second exchange happens, whatever the
\* API answers (authorization failures included).
RequestTokens(s) ==
    {log[s][i].auth : i \in {j \in DOMAIN log[s] : log[s][j].ev = "request"}}

C24_OneTokenExchange ==
    /\ token_exchanges = (IF mainpc = "unconstructed" THEN 0 ELSE 1)
    /\ mainpc # "unconstructed" => api_token = "token-1"
    /\ \A s \in PayloadNames : RequestTokens(s) \subseteq {"token-1"}

\* a segment was refused with 401 and has sent its next attempt, while
\* another segment is already on its second page
C24_Witness ==
    /\ token_exchanges = 1
    /\ \E s \in PayloadNames :
          \E i, j \in DOMAIN log[s] :
              /\ i < j
              /\ log[s][i].ev = "response" /\ log[s][i].status = 401
              /\ log[s][j].ev = "request" /\ log[s][j].auth = api_token
    /\ \E s \in PayloadNames :
          /\ page_index[s] = 1
          /\ "token-1" \in RequestTokens(s)


\* C23: a resource whose parsing or filtering raises is skipped (not yielded)
\* but counted as examined, and the stream goes on: the failure never ends
\* the generator.
ParsingOrFilteringRaises(res) ==
    \/ ~res.mapping
    \/ ~res.well_formed
    \/ res.notAfter.kind = "naive"

ExaminedCount == CountOf(examined)

C23_FailedResourceSkipped ==
    /\ total_processed = ExaminedCount
    /\ \A i \in 1..Len(examined) :
          ParsingOrFilteringRaises(examined[i].res) =>
              examined[i].outcome = "skipped"
    /\ stream_pc = "raised" => stream_stop \in {"ValueError", "HTTPError"}

\* what the code does for a resource that is a mapping
C23_MappingSkipped ==
    /\ total_processed = ExaminedCount
    /\ \A i \in 1..Len(examined) :
          examined[i].res.mapping /\ ParsingOrFilteringRaises(examined[i].res) =>
              /\ examined[i].outcome = "skipped"
              /\ (i < Len(examined) \/ stream_pc # "raised"
                    \/ stream_stop = "HTTPError")


\* ---- C25
PagePauses(events) ==
    SelectSeq(events, LAMBDA e : e.ev = "sleep" /\ e.why = "page")

LastEvent(events) == events[Len(events)]

\* the step sends the first request of a page after the first one
FirstRequestOfNextPage(s) ==
    /\ page_index[s] > 0
    /\ log'[s] # log[s]
    /\ Len(log'[s]) = 1
    /\ log'[s][1].ev = "request"

\* the step sends a retry of the current page
RetryRequest(s) ==
    /\ Len(log'[s]) = Len(log[s]) + 1
    /\ LastEvent(log'[s]).ev = "request"
    /\ LastEvent(log'[s]).attempt > 1

\* the step receives the page without a next-page key
FinalPage(s) == pc[s] = "awaiting" /\ pc'[s] = "returned"

\* the step receives a page that carries a next-page key
PageWithKey(s) ==
    /\ pc[s] = "awaiting"
    /\ page_index'[s] = page_index[s] + 1
    /\ next_record_key'[s] # NoKey

\* C25: after every successful page that carries a next-page key exactly one
\* pause of 0.03 s comes before the first request of the next page; there is
\* no pause after the final page; a retry is preceded by its backoff sleep
\* only, never by the inter-page pause.
C25_PauseBetweenPages ==
    [][\A s \in PayloadNames :
          /\ PageWithKey(s) =>
                /\ pc'[s] = "sleeping_page"
                /\ Len(PagePauses(log'[s])) = 1
                /\ LastEvent(log'[s]).why = "page"
                /\ LastEvent(log'[s]).dur = 30
          /\ FirstRequestOfNextPage(s) =>
                /\ pc[s] = "sleeping_page"
                /\ Len(PagePauses(log[s])) = 1
                /\ LastEvent(log[s]).ev = "sleep"
                /\ LastEvent(log[s]).why = "page"
          /\ FinalPage(s) => PagePauses(log'[s]) = <<>>
          /\ RetryRequest(s) =>
                /\ LastEvent(log[s]).ev = "sleep"
                /\ LastEvent(log[s]).why = "backoff"
                /\ PagePauses(log[s]) = <<>>
      ]_vars

\* the second page has been asked for, refused once and asked for again
C25_Witness ==
    \E s \in PayloadNames :
        /\ page_index[s] = 1
        /\ AttemptOutcomes(s) = <<429>>
        /\ Len(Requests(s)) = 2
        /\ pc[s] = "awaiting"


\* ---- C26
RECURSIVE Doubled(_, _)
Doubled(delay, times) == IF times = 0 THEN delay ELSE 2 * Doubled(delay, times - 1)

\* C26: a page is requested at most 3 times whatever mix of 429, 503 and
\* transport errors answers it; the sleep before the k-th retry lasts
\* 0.5 * 2^(k-1) s; attempt counter and backoff delay restart at attempt 1
\* and 0.5 s with each new page.
C26_AttemptsAndBackoffPerPage ==
    \A s \in PayloadNames :
        /\ Len(Requests(s)) <= 3
        /\ \A i \in 1..Len(Requests(s)) :
              Requests(s)[i].attempt = i
        /\ \A k \in 1..Len(BackoffSleeps(s)) :
              BackoffSleeps(s)[k] = Doubled(500, k - 1)
        /\ Len(BackoffSleeps(s)) <= 2
        /\ Len(log[s]) = 1 => attempt[s] = 0 /\ retry_delay[s] = 500

\* the second page is on its third attempt after a 503 and a transport
\* error, with sleeps of 0.5 s and 1 s
C26_Witness ==
    \E s \in PayloadNames :
        /\ page_index[s] = 1
        /\ Len(Requests(s)) = 3
        /\ BackoffSleeps(s) = <<500, 1000>>
        /\ AttemptOutcomes(s) = <<503, -1>>


\* ---- C29
\* the step is a failed attempt: the answer is no decodable 200 page, or the
\* backoff sleep that follows it ends
FailedAttempt(s) ==
    \/ pc[s] = "awaiting" /\ pc'[s] \in {"sleeping_retry", "raised"}
    \/ pc[s] = "sleeping_retry"

\* the step is the successful attempt of a page
SuccessfulAttempt(s) ==
    pc[s] = "awaiting" /\ pc'[s] \in {"sleeping_page", "returned"}

NoRowTwice(rows) ==
    \A i, j \in 1..Len(rows) : i # j => rows[i] # rows[j]

\* C29: a failed attempt changes neither the accumulated list nor
\* nextRecordKey nor the page count; the retry re-sends the nextRecordKey of
\* the failed request; each page adds its resources exactly once, on its one
\* successful attempt.
C29_FailedAttemptKeepsState ==
    [][\A s \in PayloadNames :
          /\ FailedAttempt(s) =>
                /\ all_resources_for_payload'[s] = all_resources_for_payload[s]
                /\ next_record_key'[s] = next_record_key[s]
                /\ page_index'[s] = page_index[s]
          /\ RetryRequest(s) =>
                /\ LastEvent(log'[s]).key = Requests(s)[Len(Requests(s))].key
                /\ LastEvent(log'[s]).key = next_record_key[s]
                /\ LastEvent(log'[s]).page = Requests(s)[1].page
          /\ SuccessfulAttempt(s) =>
                /\ page_index'[s] = page_index[s] + 1
                /\ Len(all_resources_for_payload'[s]) =
                      Len(all_resources_for_payload[s])
                          + Len(served'[s]) - Len(served[s])
                /\ all_resources_for_payload'[s] = ExpectedRows(s)'
                /\ NoRowTwice(all_resources_for_payload'[s])
          /\ page_index'[s] # page_index[s] => SuccessfulAttempt(s)
          /\ all_resources_for_payload'[s] # all_resources_for_payload[s] =>
                SuccessfulAttempt(s)
      ]_vars

\* the second page failed once and succeeded on its retry: two pages, one
\* row each
C29_Witness ==
    \E s \in PayloadNames :
        /\ page_index[s] = 2
        /\ AttemptOutcomes(s) = <<-1, 200>>
        /\ Requests(s)[1].key # NoKey
        /\ Requests(s)[2].key = Requests(s)[1].key
        /\ Len(all_resources_for_payload[s]) = 2


\* ---- C27
StreamFailedOnStatus == stream_stop = "HTTPError"

\* C27: a non-success HTTP status on a page of Subsystem A's stream is never
\* retried: the stream raises at that page, main returns 1 and writes no
\* artifact, whatever earlier pages had yielded.
C27_HttpErrorEndsMain ==
    StreamFailedOnStatus =>
        /\ stream_pc = "raised"
        /\ Len(stream_requests) = page_count
        /\ \A i, j \in 1..Len(stream_requests) :
              i # j => stream_requests[i].key # stream_requests[j].key
        /\ stream_requests[page_count].total_before = total_processed
        /\ main_pc \in {"stream", "returned"}
        /\ result = NoResult
        /\ artifacts = {}
        /\ ~summary_printed
        /\ main_pc = "returned" =>
              /\ exit_code = 1
              /\ steps[Len(steps)] = [step |-> "stream", outcome |-> "raised"]

\* the second page is answered with an error status after the first page
\* had yielded certificates
C27_Witness ==
    /\ StreamFailedOnStatus
    /\ page_count = 2
    /\ CountOf(yielded) > 0
    /\ main_pc = "returned"
    /\ exit_code = 1
    /\ artifacts = {}


\* ---- C28
InsightEntries ==
    {"significant_differences", "rotation_predictors", "rotation_blockers",
     "rotation_rate"}

\* the entries generate_rotation_insights returned, main's own entry aside
ReturnedEntries == DOMAIN result.insights \ {"arn_diagnosis"}

\* C28: generate_rotation_insights returns the empty mapping iff the
\* comparison table is empty, else a mapping with all four of
\* significant_differences, rotation_predictors, rotation_blockers and
\* rotation_rate; main adds arn_diagnosis in both cases.
C28_InsightsEntries ==
    result # NoResult =>
        /\ "arn_diagnosis" \in DOMAIN result.insights
        /\ ReturnedEntries = {} <=> result.comparison_df = <<>>
        /\ ReturnedEntries # {} => ReturnedEntries = InsightEntries

\* nothing was streamed: the table is empty and the insights hold the
\* diagnosis only
C28_Witness ==
    /\ result # NoResult
    /\ main_pc = "returned"
    /\ result.comparison_df = <<>>
    /\ DOMAIN result.insights = {"arn_diagnosis"}

C28_WitnessFull ==
    /\ result # NoResult
    /\ result.comparison_df # <<>>
    /\ DOMAIN result.insights = InsightEntries \cup {"arn_diagnosis"}


\* ---- C30
\* the task of the segment has started and not finished: it has a request
\* outstanding or is about to send one
TaskRunning(s) ==
    pc[s] \in {"start", "awaiting", "sleeping_retry", "sleeping_page"}

RequestSent(s) ==
    /\ log'[s] # log[s]
    /\ LastEvent(log'[s]).ev = "request"

\* C30: every request of every segment is issued while the shared session is
\* open; the session is closed only after all three tasks have finished, and
\* it is closed on the success and on the failure path of
\* extract_api_certificates_concurrently.
C30_SessionSpansRequests ==
    /\ [](/\ \A s \in PayloadNames : TaskRunning(s) => session_open
          /\ mainpc \in {"returned", "raised"} =>
                /\ ~session_open
                /\ \A s \in PayloadNames : TaskDone(s))
    /\ [][/\ \A s \in PayloadNames :
                RequestSent(s) => session_open /\ session_open'
          /\ (session_open /\ ~session_open') =>
                \A s \in PayloadNames : TaskDone(s)
         ]_vars

\* one segment failed early, the others went on to fetch their pages, and
\* the session was closed when extract raised
C30_Witness ==
    /\ mainpc = "raised"
    /\ ~session_open
    /\ finish_order[1] = "PCA"
    /\ pc["PCA"] = "raised"
    /\ pc["Amazon"] = "returned" /\ page_index["Amazon"] = 2


\* ---- C31
ArnsOf(certificates) ==
    {certificates[i].cert.arn : i \in 1..Len(certificates)} \ {""}

\* every certificate of the list has an ARN of its own, none empty
DistinctArns(certificates) ==
    /\ \A i \in 1..Len(certificates) :
          certificates[i].n = 1 /\ certificates[i].cert.arn # ""
    /\ \A i, j \in 1..Len(certificates) :
          i # j => certificates[i].cert.arn # certificates[j].cert.arn

\* C31, as stated: matching_certificates equals arn_diagnosis.overlap_count
\* and api_only_certificates equals arn_diagnosis.api_only_count, also with
\* repeated and empty ARNs.
C31_CountsEqualDiagnosis ==
    result # NoResult =>
        /\ result.matching_certificates
              = result.insights["arn_diagnosis"].overlap_count
        /\ result.api_only_certificates
              = result.insights["arn_diagnosis"].api_only_count

\* C31, amended: the two counts of main count certificates, the two counts
\* of the diagnosis count distinct non-empty ARNs of the same two groups; so
\* the former are at least the latter, and equal to them when the streamed
\* certificates have pairwise distinct, non-empty ARNs.
C31_CountsBoundDiagnosis ==
    result # NoResult =>
        LET diagnosis == result.insights["arn_diagnosis"]
        IN  /\ diagnosis.overlap_count
                  = Cardinality(ArnsOf(result.rotating_configs))
            /\ diagnosis.api_only_count
                  = Cardinality(ArnsOf(result.non_rotating_configs))
            /\ result.matching_certificates >= diagnosis.overlap_count
            /\ result.api_only_certificates >= diagnosis.api_only_count
            /\ DistinctArns(yielded) =>
                  /\ result.matching_certificates = diagnosis.overlap_count
                  /\ result.api_only_certificates = diagnosis.api_only_count

\* 120 certificates share one ARN of the dataset and one certificate has no
\* ARN: 120 matching against an overlap of 1, 1 API-only against 0
C31_Witness ==
    /\ result # NoResult
    /\ result.matching_certificates = 120
    /\ result.insights["arn_diagnosis"].overlap_count = 1
    /\ result.api_only_certificates = 1
    /\ result.insights["arn_diagnosis"].api_only_count = 0

\* two certificates with ARNs of their own, one in the dataset
C31_WitnessDistinct ==
    /\ result # NoResult
    /\ DistinctArns(yielded)
    /\ result.matching_certificates = 1
    /\ result.api_only_certificates = 1


\* C32: a warehouse connection that main has opened is closed by the time
\* main returns, on every path and for every exit code, the path where the
\* dataset ARN query raises included.
C32_ConnectionClosed ==
    (main_pc = "returned" /\ snf_conn # "none") => snf_conn = "closed"

\* what the code does: the connection is closed on the paths that get past
\* the query
C32_ClosedAfterQuery ==
    (main_pc = "returned" /\ snf_conn = "open") =>
        /\ exit_code = 1
        /\ steps[Len(steps)] = [step |-> "fetch_arns", outcome |-> "raised"]


\* ---- C33
\* the seven columns of create_comparative_analysis: Configuration Field,
\* Value, Rotating Count, Rotating %, Non-Rotating Count, Non-Rotating %,
\* Difference
ComparisonColumns ==
    {"Field", "Value", "Rotating_Count", "Rotating_Pct", "Non_Rotating_Count",
     "Non_Rotating_Pct", "Difference"}

\* C33: generate_rotation_insights leaves the comparison table unchanged:
\* after the insight step of main the table that is printed and persisted
\* has the seven columns and the rows create_comparative_analysis produced.
C33_TableUnchanged ==
    result # NoResult =>
        /\ result.comparison_df =
              create_comparative_analysis(result.rotating_configs,
                                          result.non_rotating_configs)
        /\ \A i \in 1..Len(result.comparison_df) :
              DOMAIN result.comparison_df[i] = ComparisonColumns

\* what the code does: the rows keep their seven values and gain the column
\* Diff_Numeric
C33_TableGainsColumn ==
    result # NoResult =>
        LET made == create_comparative_analysis(result.rotating_configs,
                                                result.non_rotating_configs)
        IN  /\ Len(result.comparison_df) = Len(made)
            /\ \A i \in 1..Len(made) :
                  /\ DOMAIN result.comparison_df[i]
                        = ComparisonColumns \cup {"Diff_Numeric"}
                  /\ \A c \in ComparisonColumns :
                        result.comparison_df[i][c] = made[i][c]


\* ---- C34
\* every page that was followed by another request, and so carried a key,
\* held at least one resource
KeyedPagesNotEmpty ==
    \A i \in 1..(Len(stream_requests) - 1) : stream_requests[i].served >= 1

LastRequest == stream_requests[Len(stream_requests)]

\* the answer to the last request has been processed and took the number of
\* resources served to the ceiling
LastPageCrossesCeiling ==
    /\ stream_requests # <<>>
    /\ stream_pc \in {"ended", "raised"} /\ stream_stop # "HTTPError"
    /\ LastRequest.total_before + LastRequest.served >= 50000

\* the examined resources that came with the last page
OfLastPage(i) == CountOf(SubSeq(examined, 1, i - 1)) >= LastRequest.total_before

NotExpired(res) == ~HasExpiry(res) \/ res.notAfter.t > now_utc

LargestPage ==
    LET sizes == {stream_requests[i].served : i \in 1..Len(stream_requests)}
    IN  IF sizes = {} THEN 0 ELSE CHOOSE n \in sizes : \A m \in sizes : m <= n

\* C34: when every page with a next-page key holds a resource the stream
\* ends after at most 50000 page requests; the ceiling is looked at after a
\* whole page only, so at most 49999 resources plus the largest page are
\* examined, and every resource of the page that crosses the ceiling is
\* examined and, unless expired, yielded.
C34_CeilingAfterWholePage ==
    KeyedPagesNotEmpty =>
        /\ page_count <= 50000
        /\ stream_requests # <<>> =>
              /\ LastRequest.total_before < 50000
              /\ page_count <= LastRequest.total_before + 1
        /\ total_processed <= 49999 + LargestPage
        /\ LastPageCrossesCeiling =>
              /\ total_processed = LastRequest.total_before + LastRequest.served
              /\ \A i \in 1..Len(examined) :
                    (/\ OfLastPage(i)
                     /\ examined[i].res.mapping /\ examined[i].res.well_formed
                     /\ NotExpired(examined[i].res))
                        => examined[i].outcome = "yielded"

\* what the code does on the page that crosses the ceiling: resources are
\* examined up to the first element that is no mapping, and an unexpired
\* one is yielded if its expiry carries an offset
C34_CeilingAsCoded ==
    KeyedPagesNotEmpty =>
        /\ page_count <= 50000
        /\ stream_requests # <<>> =>
              /\ LastRequest.total_before < 50000
              /\ page_count <= LastRequest.total_before + 1
        /\ total_processed <= 49999 + LargestPage
        /\ (LastPageCrossesCeiling /\ stream_stop # "AttributeError") =>
              /\ total_processed = LastRequest.total_before + LastRequest.served
              /\ \A i \in 1..Len(examined) :
                    (/\ OfLastPage(i)
                     /\ examined[i].res.well_formed
                     /\ NotExpired(examined[i].res)
                     /\ examined[i].res.notAfter.kind # "naive")
                        => examined[i].outcome = "yielded"

====
